---- MODULE Spec2Model ----
(***************************************************************************)
(* A model of page.js: the navigation controller (Page), the navigation    *)
(* context (Context), the route (Route) and the two-phase dispatch engine  *)
(* (Page.dispatch), together with the part of the browser they talk to     *)
(* (history entries, location, timers).                                    *)
(*                                                                         *)
(* Strings are sequences of one-character strings, so that indexOf, slice, *)
(* replace and split are computed as the code computes them.               *)
(***************************************************************************)
EXTENDS Integers, Sequences, FiniteSets, TLC

(***************************************************************************)
(* String helpers (JavaScript String.prototype semantics, 0-based).        *)
(***************************************************************************)

\* s.slice(a, b) for 0 <= a, b: the characters at 0-based positions a .. b-1
Slice(s, a, b) ==
  IF b <= a THEN << >> ELSE SubSeq(s, a + 1, IF b > Len(s) THEN Len(s) ELSE b)

\* s.slice(a)
SliceFrom(s, a) == Slice(s, a, Len(s))

\* whether t occurs in s at 0-based position p
OccursAt(s, t, p) ==
  /\ p >= 0
  /\ p + Len(t) <= Len(s)
  /\ \A k \in 1..Len(t) : s[p + k] = t[k]

\* s.indexOf(t): the first 0-based position of t in s, or -1
IndexOf(s, t) ==
  IF \E p \in 0..Len(s) : OccursAt(s, t, p)
  THEN CHOOSE p \in 0..Len(s) :
         /\ OccursAt(s, t, p)
         /\ \A q \in 0..(p - 1) : ~OccursAt(s, t, q)
  ELSE -1

\* s.replace(t, '') for a string t: the first occurrence is removed
RemoveFirst(s, t) ==
  LET p == IndexOf(s, t)
  IN IF p = -1 THEN s ELSE Slice(s, 0, p) \o SliceFrom(s, p + Len(t))

\* s.replace(new RegExp('^' + escapeRegExp(t)), ''): a literal prefix is removed
RemovePrefix(s, t) ==
  IF OccursAt(s, t, 0) THEN SliceFrom(s, Len(t)) ELSE s

\* s.split(c)[0] and s.split(c)[1] for a one-character separator
SplitFirst(s, c) ==
  LET p == IndexOf(s, <<c>>) IN IF p = -1 THEN s ELSE Slice(s, 0, p)

SplitSecond(s, c) ==
  LET p == IndexOf(s, <<c>>)
      rest == SliceFrom(s, p + 1)
  IN IF p = -1 THEN << >> ELSE SplitFirst(rest, c)

\* x || y on strings: the empty string is falsy
OrElse(x, y) == IF x = << >> THEN y ELSE x

(***************************************************************************)
(* Percent-decoding.  A result is [err |-> BOOLEAN, val |-> string]: err   *)
(* stands for the URIError that decodeURIComponent throws on a malformed   *)
(* escape.  The escapes the model knows are those of HexPairs; any other   *)
(* '%' is a malformed escape.                                              *)
(***************************************************************************)
HexPairs == {<<"2", "0">>, <<"2", "F">>, <<"2", "5">>}

HexChar(pair) ==
  CASE pair = <<"2", "0">> -> " "
    [] pair = <<"2", "F">> -> "/"
    [] pair = <<"2", "5">> -> "%"

RECURSIVE decodeFrom(_, _)
decodeFrom(s, p) ==
  IF p > Len(s) THEN [err |-> FALSE, val |-> << >>]
  ELSE IF s[p] # "%"
       THEN LET r == decodeFrom(s, p + 1)
            IN [err |-> r.err, val |-> IF r.err THEN << >> ELSE <<s[p]>> \o r.val]
       ELSE IF p + 2 <= Len(s) /\ <<s[p + 1], s[p + 2]>> \in HexPairs
            THEN LET r == decodeFrom(s, p + 3)
                 IN [err |-> r.err,
                     val |-> IF r.err THEN << >>
                             ELSE <<HexChar(<<s[p + 1], s[p + 2]>>)>> \o r.val]
            ELSE [err |-> TRUE, val |-> << >>]

\* decodeURIComponent(s)
decodeURIComponent(s) == decodeFrom(s, 1)

\* val.replace(/\+/g, ' ')
PlusToSpace(s) == [k \in 1..Len(s) |-> IF s[k] = "+" THEN " " ELSE s[k]]

\* Page._decodeURLEncodedURIComponent(val) for a string val
decodeURLEncodedURIComponent(decodeURLComponents, val) ==
  IF decodeURLComponents THEN decodeURIComponent(PlusToSpace(val))
  ELSE [err |-> FALSE, val |-> val]

(***************************************************************************)
(* Context: new Context(path, state, page).  The page's configuration is   *)
(* passed as pg = [base, hashbang, decode, protocolFile, locPathname].     *)
(* handled is "unset" (undefined), "true" or "false".  The constructor is  *)
(* written in stages, each taking the values the lines before it computed. *)
(***************************************************************************)

\* Page._getBase()
getBase(pg) ==
  IF pg.base # << >> THEN pg.base
  ELSE IF pg.hashbang /\ pg.protocolFile THEN pg.locPathname
  ELSE pg.base

\* a constructor that puts the base before every path that starts with a slash
PrefixedPathAlways(path, pg) ==
  IF Len(path) > 0 /\ path[1] = "/"
  THEN getBase(pg) \o (IF pg.hashbang THEN <<"#", "!">> ELSE << >>) \o path
  ELSE path

\* the path after the constructor's base prefixing
PrefixedPath(path, pg) ==
  IF Len(path) > 0 /\ path[1] = "/" /\ IndexOf(path, getBase(pg)) # 0
  THEN getBase(pg) \o (IF pg.hashbang THEN <<"#", "!">> ELSE << >>) \o path
  ELSE path

\* this.path, before the fragment is cut
LogicalPath(path, pg) ==
  IF pg.hashbang
  THEN OrElse(RemoveFirst(OrElse(RemovePrefix(path, getBase(pg)), <<"/">>),
                          <<"#", "!">>),
              <<"/">>)
  ELSE OrElse(RemovePrefix(path, getBase(pg)), <<"/">>)

NoError(v) == [err |-> FALSE, val |-> v]

\* the fields, from the decoded query string, pathname and fragment
ContextFields(path, lpath, hasHash, qs, pn, hs) ==
  [err |-> qs.err \/ pn.err \/ hs.err,
   canonicalPath |-> path,
   path |-> IF hasHash THEN SplitFirst(lpath, "#") ELSE lpath,
   pathname |-> IF hasHash THEN SplitFirst(lpath, "#") ELSE pn.val,
   querystring |-> IF hasHash THEN SplitFirst(qs.val, "#") ELSE qs.val,
   hash |-> hs.val,
   state |-> [path |-> path],
   params |-> {},
   handled |-> "unset",
   init |-> FALSE]

\* the constructor from the prefixed path on: i = path.indexOf('?'), lpath =
\* this.path, hasHash = the fragment branch is taken
ContextAt(path, pg, i, lpath, hasHash) ==
  ContextFields(path, lpath, hasHash,
    IF i # -1 THEN decodeURLEncodedURIComponent(pg.decode, SliceFrom(path, i + 1))
    ELSE NoError(<< >>),
    decodeURLEncodedURIComponent(pg.decode, IF i # -1 THEN Slice(path, 0, i) ELSE path),
    IF hasHash THEN decodeURLEncodedURIComponent(pg.decode, SplitSecond(lpath, "#"))
    ELSE NoError(<< >>))

ContextOf(path, pg, lpath) ==
  ContextAt(path, pg, IndexOf(path, <<"?">>), lpath,
            ~pg.hashbang /\ IndexOf(lpath, <<"#">>) # -1)

ContextFrom(path, pg) == ContextOf(path, pg, LogicalPath(path, pg))

\* The constructed context; err: a decode threw.
NewContext(rawPath, pg) == ContextFrom(PrefixedPath(rawPath, pg), pg)

(***************************************************************************)
(* Pattern compiler: parse.  A token is a record; type "lit" is a literal  *)
(* string fragment (str), type "key" a capture descriptor.  PATH_REGEXP is *)
(* applied as the code applies it: leftmost match, alternatives in order.  *)
(* Group bodies with escaped parentheses are outside the model's alphabet. *)
(* A key's name is kept as the string under which params stores it (the    *)
(* positional index i is the property "i"); positional tells the two apart.*)
(***************************************************************************)
WordChars ==
  {"a", "b", "c", "d", "e", "f", "i", "n", "t", "u", "x", "y", "z",
   "A", "B", "F", "0", "1", "2", "5", "_"}

\* String(k) for a small number k
NumStr(k) ==
  <<CASE k = 0 -> "0" [] k = 1 -> "1" [] k = 2 -> "2" [] k = 3 -> "3"
      [] OTHER -> "4">>

Lit(str) ==
  [type |-> "lit", str |-> str, name |-> << >>, positional |-> FALSE,
   prefix |-> << >>, delimiter |-> << >>, optional |-> FALSE, repeat |-> FALSE,
   pattern |-> << >>]

CharAt(s, p) == IF p >= 1 /\ p <= Len(s) THEN s[p] ELSE ""

\* the end (exclusive, 1-based) of the maximal run of characters of set cs from p
RECURSIVE RunEnd(_, _, _)
RunEnd(s, p, cs) == IF CharAt(s, p) \in cs THEN RunEnd(s, p + 1, cs) ELSE p

\* the end of a maximal run of characters other than parentheses from p
RECURSIVE GroupEnd(_, _)
GroupEnd(s, p) ==
  IF p <= Len(s) /\ s[p] \notin {"(", ")"} THEN GroupEnd(s, p + 1) ELSE p

GroupClosedAt(s, p, e) ==
  IF CharAt(s, p) = "(" /\ e > p + 1 /\ CharAt(s, e) = ")"
  THEN [ok |-> TRUE, body |-> SubSeq(s, p + 1, e - 1), next |-> e + 1]
  ELSE [ok |-> FALSE, body |-> << >>, next |-> p]

\* \(((?:\\.|[^()])+)\) at p: [ok, body, next]
GroupAt(s, p) == GroupClosedAt(s, p, GroupEnd(s, p + 1))

\* escapeGroup(group): = ! : $ / ( ) get a backslash
RECURSIVE escapeGroup(_)
escapeGroup(g) ==
  IF g = << >> THEN << >>
  ELSE (IF Head(g) \in {"=", "!", ":", "$", "/", "(", ")"}
        THEN <<"\\", Head(g)>> ELSE <<Head(g)>>) \o escapeGroup(Tail(g))

NoTok == [ok |-> FALSE, next |-> 0, escaped |-> FALSE, tok |-> Lit(<< >>)]

\* ([+*?])? at p
SuffixAt(s, p) == IF CharAt(s, p) \in {"+", "*", "?"} THEN <<CharAt(s, p)>> ELSE << >>

\* a parse that takes no capture for optional
KeyTokRequired(after, name, positional, prefix, suffix, pattern) ==
  [ok |-> TRUE, next |-> after + Len(suffix), escaped |-> FALSE,
   tok |-> [type |-> "key", str |-> << >>, name |-> name, positional |-> positional,
            prefix |-> prefix,
            delimiter |-> IF prefix = << >> THEN <<"/">> ELSE prefix,
            optional |-> FALSE,
            repeat |-> suffix \in {<<"+">>, <<"*">>},
            pattern |-> escapeGroup(pattern)]]

\* the token parse pushes for one match of PATH_REGEXP that ends at `after`
KeyTok(after, name, positional, prefix, suffix, pattern) ==
  [ok |-> TRUE, next |-> after + Len(suffix), escaped |-> FALSE,
   tok |-> [type |-> "key", str |-> << >>, name |-> name, positional |-> positional,
            prefix |-> prefix,
            delimiter |-> IF prefix = << >> THEN <<"/">> ELSE prefix,
            optional |-> suffix \in {<<"?">>, <<"*">>},
            repeat |-> suffix \in {<<"+">>, <<"*">>},
            pattern |-> escapeGroup(pattern)]]

\* '[^' + delimiter + ']+?'
DefaultPattern(prefix) ==
  <<"[", "^">> \o (IF prefix = << >> THEN <<"/">> ELSE prefix) \o <<"]", "+", "?">>

\* :name at q (the name ends before nameEnd), followed by cap, a group or none
NameTok(s, q, prefix, nameEnd, cap) ==
  IF cap.ok
  THEN KeyTok(cap.next, SubSeq(s, q + 1, nameEnd - 1), FALSE, prefix,
              SuffixAt(s, cap.next), cap.body)
  ELSE KeyTok(nameEnd, SubSeq(s, q + 1, nameEnd - 1), FALSE, prefix,
              SuffixAt(s, nameEnd), DefaultPattern(prefix))

\* a bare group at q, or a bare asterisk
GroupTok(s, q, prefix, cap) ==
  IF cap.ok
  THEN KeyTok(cap.next, << >>, TRUE, prefix, SuffixAt(s, cap.next), cap.body)
  ELSE IF CharAt(s, q) = "*"
  THEN KeyTok(q + 1, << >>, TRUE, prefix, << >>, <<".", "*">>)
  ELSE NoTok

NamedAt(s, q, prefix, nameEnd) ==
  IF CharAt(s, q) = ":" /\ nameEnd > q + 1
  THEN NameTok(s, q, prefix, nameEnd, GroupAt(s, nameEnd))
  ELSE GroupTok(s, q, prefix, GroupAt(s, q))

\* the alternatives of PATH_REGEXP after the optional prefix, at q
BodyAt(s, q, prefix) == NamedAt(s, q, prefix, RunEnd(s, q + 1, WordChars))

\* One application of PATH_REGEXP at position p: [ok, next, escaped, tok]
TokAt(s, p) ==
  IF CharAt(s, p) = "\\" /\ p + 1 <= Len(s)
  THEN [ok |-> TRUE, next |-> p + 2, escaped |-> TRUE, tok |-> Lit(<<s[p + 1]>>)]
  ELSE IF CharAt(s, p) \in {"/", "."} THEN BodyAt(s, p + 1, <<s[p]>>)
  ELSE BodyAt(s, p, << >>)

Pending(path) == IF path # << >> THEN <<Lit(path)>> ELSE << >>

\* the loop of parse: index is the 1-based scan position, path the pending
\* literal, key the next positional name
RECURSIVE parseFrom(_, _, _, _)
RECURSIVE parseStep(_, _, _, _, _)
parseFrom(str, index, path, key) ==
  IF index > Len(str) THEN Pending(path)
  ELSE parseStep(str, index, path, key, TokAt(str, index))

parseStep(str, index, path, key, m) ==
  IF ~m.ok THEN parseFrom(str, index + 1, Append(path, str[index]), key)
  ELSE IF m.escaped THEN parseFrom(str, m.next, path \o m.tok.str, key)
  ELSE IF m.tok.positional
  THEN Pending(path) \o <<[m.tok EXCEPT !.name = NumStr(key)]>>
       \o parseFrom(str, m.next, << >>, key + 1)
  ELSE Pending(path) \o <<m.tok>> \o parseFrom(str, m.next, << >>, key)

\* parse(str)
parse(str) == parseFrom(str, 1, << >>, 0)

\* the capture tokens of a token list, in order (stringToRegexp's keys)
RECURSIVE KeysOf(_)
KeysOf(tokens) ==
  IF tokens = << >> THEN << >>
  ELSE (IF Head(tokens).type = "key" THEN <<Head(tokens)>> ELSE << >>)
       \o KeysOf(Tail(tokens))

\* the keys list after arrayToRegexp has compiled the patterns from the i-th
\* on: each entry goes through pathToRegexp with the shared list
RECURSIVE arrayKeys(_, _, _)
arrayKeys(paths, i, keys) ==
  IF i > Len(paths) THEN keys
  ELSE arrayKeys(paths, i + 1, keys \o KeysOf(parse(paths[i])))

\* the keys list pathToRegexp fills for a string (a list of one) or an array
pathToRegexpKeys(paths) == arrayKeys(paths, 1, << >>)

(***************************************************************************)
(* Pattern compiler: tokensToRegExp and RegExp.exec.  The expression that  *)
(* tokensToRegExp builds is not kept as text: MatchFrom walks the tokens   *)
(* and tries, in the order the backtracking matcher tries them, every way  *)
(* the built expression can match; the first way found is exec's result.   *)
(* A capture is [def |-> BOOLEAN, s |-> string] (def = FALSE: undefined).  *)
(***************************************************************************)
Undef == [def |-> FALSE, s |-> << >>]

Lower(c) ==
  CASE c = "A" -> "a" [] c = "B" -> "b" [] c = "F" -> "f" [] OTHER -> c

\* literal text t at 1-based position pos of s, under the flags
LitAt(s, t, pos, sensitive) ==
  /\ pos + Len(t) - 1 <= Len(s)
  /\ \A k \in 1..Len(t) :
       IF sensitive THEN s[pos + k - 1] = t[k]
       ELSE Lower(s[pos + k - 1]) = Lower(t[k])

\* [a, a+1, ..., b] and [b, b-1, ..., a]
Ascending(a, b) == IF b < a THEN << >> ELSE [k \in 1..(b - a + 1) |-> a + k - 1]
Descending(a, b) == IF b < a THEN << >> ELSE [k \in 1..(b - a + 1) |-> b - k + 1]

\* The ends (exclusive) at which a token's own pattern can stop when it starts
\* at pos, in the matcher's order: '[^d]+?' is lazy, '.*' and '\d+' are greedy.
PatternEnds(pattern, s, pos) ==
  IF pattern = <<".", "*">> THEN Descending(pos, RunEnd(s, pos, {s[k] : k \in 1..Len(s)} \ {"\n"}))
  ELSE IF pattern = <<"\\", "d", "+">>
  THEN Descending(pos + 1, RunEnd(s, pos, {"0", "1", "2", "5"}))
  ELSE Ascending(pos + 1,
         RunEnd(s, pos, {s[k] : k \in 1..Len(s)} \ {pattern[Len(pattern) - 3]}))

\* ends of pattern(?:prefix pattern)* from pos, greedy on the repetition
RECURSIVE RepeatEnds(_, _, _)
RECURSIVE RepeatEndsOver(_, _, _, _)
RepeatEnds(tok, s, pos) ==
  RepeatEndsOver(tok, s, PatternEnds(tok.pattern, s, pos), pos)

RepeatEndsOver(tok, s, ends, from) ==
  IF ends = << >> THEN << >>
  ELSE (IF /\ LitAt(s, tok.prefix, Head(ends), FALSE)
           /\ Head(ends) + Len(tok.prefix) > from
           /\ Head(ends) <= Len(s)
        THEN RepeatEnds(tok, s, Head(ends) + Len(tok.prefix))
        ELSE << >>)
       \o <<Head(ends)>> \o RepeatEndsOver(tok, s, Tail(ends), from)

\* a non-strict mode that keeps the pattern's trailing slash
EffectiveTokensKept(tokens, strict) == tokens

\* non-strict mode drops the separator that ends the last literal token
DropLast(tokens, n) ==
  [tokens EXCEPT ![n].str = SubSeq(tokens[n].str, 1, Len(tokens[n].str) - 1)]

EffectiveTokens(tokens, strict) ==
  IF /\ ~strict
     /\ Len(tokens) > 0
     /\ tokens[Len(tokens)].type = "lit"
     /\ tokens[Len(tokens)].str[Len(tokens[Len(tokens)].str)] = "/"
  THEN DropLast(tokens, Len(tokens))
  ELSE tokens

\* each way of rest, with capture cap put in front
Prepend(cap, rest) == [i \in 1..Len(rest) |-> <<cap>> \o rest[i]]

\* Every way tokens k.. can match s from pos to its end, each as the list of
\* the captures of those tokens, in the matcher's order.
RECURSIVE MatchFrom(_, _, _, _, _)
RECURSIVE MatchKey(_, _, _, _, _, _)
RECURSIVE MatchEnds(_, _, _, _, _, _, _)
MatchFrom(tokens, k, s, pos, opts) ==
  IF k > Len(tokens)
  THEN (IF pos = Len(s) + 1 \/ (~opts.strict /\ pos = Len(s) /\ s[pos] = "/")
        THEN << << >> >> ELSE << >>)
  ELSE IF tokens[k].type = "lit"
  THEN (IF LitAt(s, tokens[k].str, pos, opts.sensitive)
        THEN MatchFrom(tokens, k + 1, s, pos + Len(tokens[k].str), opts)
        ELSE << >>)
  ELSE MatchKey(tokens, k, s, pos, opts, tokens[k])

\* a capture token: first with the capture taken, then (optional) without it
MatchKey(tokens, k, s, pos, opts, tok) ==
  MatchEnds(tokens, k, s, pos + Len(tok.prefix),
            IF ~LitAt(s, tok.prefix, pos, opts.sensitive) THEN << >>
            ELSE IF tok.repeat THEN RepeatEnds(tok, s, pos + Len(tok.prefix))
            ELSE PatternEnds(tok.pattern, s, pos + Len(tok.prefix)),
            opts, 1)
  \o (IF tok.optional THEN Prepend(Undef, MatchFrom(tokens, k + 1, s, pos, opts))
      ELSE << >>)

MatchEnds(tokens, k, s, start, ends, opts, n) ==
  IF n > Len(ends) THEN << >>
  ELSE Prepend([def |-> TRUE, s |-> SubSeq(s, start, ends[n] - 1)],
               MatchFrom(tokens, k + 1, s, ends[n], opts))
       \o MatchEnds(tokens, k, s, start, ends, opts, n + 1)

FirstOf(all) ==
  IF all = << >> THEN [ok |-> FALSE, caps |-> << >>]
  ELSE [ok |-> TRUE, caps |-> all[1]]

\* regexp.exec(s) for the expression compiled from tokens under opts =
\* [strict, sensitive]: [ok, caps]
exec(tokens, s, opts) ==
  FirstOf(MatchFrom(EffectiveTokens(tokens, opts.strict), 1, s, 1, opts))

(***************************************************************************)
(* Route.  A route is [path, strict]: path is the pattern handed to        *)
(* pathtoRegexp, strict the option the constructor took from the page.     *)
(* params is a set of [name, def, s]: property name, and its value (def =  *)
(* FALSE: the property is present and holds undefined).                    *)
(***************************************************************************)

\* a Route that takes the asterisk for a literal character
RouteLiteral(path, pageStrict) ==
  [path |-> IF path = <<"*">> THEN <<"\\", "*">> ELSE path,
   strict |-> pageStrict]

\* new Route(path, null, page)
Route(path, pageStrict) ==
  [path |-> IF path = <<"*">> THEN <<"(", ".", "*", ")">> ELSE path,
   strict |-> pageStrict]

HasOwnProperty(params, name) == \E e \in params : e.name = name

SetParam(params, name, def, val) ==
  {e \in params : e.name # name} \cup {[name |-> name, def |-> def, s |-> val]}

\* the loop of Route.match over the captures i..; dec is capture i decoded
RECURSIVE matchLoop(_, _, _, _, _)
RECURSIVE matchStore(_, _, _, _, _, _)
matchLoop(keys, caps, i, params, decode) ==
  IF i > Len(caps) THEN [err |-> FALSE, params |-> params]
  ELSE matchStore(keys, caps, i, params, decode,
         IF caps[i].def THEN decodeURLEncodedURIComponent(decode, caps[i].s)
         ELSE NoError(<< >>))

matchStore(keys, caps, i, params, decode, dec) ==
  IF dec.err THEN [err |-> TRUE, params |-> params]
  ELSE IF caps[i].def \/ ~HasOwnProperty(params, keys[i].name)
  THEN matchLoop(keys, caps, i + 1,
                 SetParam(params, keys[i].name, caps[i].def, dec.val), decode)
  ELSE matchLoop(keys, caps, i + 1, params, decode)

matchFilled(filled) ==
  [err |-> filled.err, ok |-> ~filled.err, params |-> filled.params]

\* after regexp.exec: m is its result, params1 the params after delete params[0]
matchResult(keys, m, params1, decode) ==
  IF ~m.ok THEN [err |-> FALSE, ok |-> FALSE, params |-> params1]
  ELSE matchFilled(matchLoop(keys, m.caps, 1, params1, decode))

\* after the decoding of the pathname
matchDecoded(rt, tokens, decoded, params, decode) ==
  IF decoded.err THEN [err |-> TRUE, ok |-> FALSE, params |-> params]
  ELSE matchResult(KeysOf(tokens),
                   exec(tokens, decoded.val,
                        [strict |-> rt.strict, sensitive |-> FALSE]),
                   {e \in params : e.name # <<"0">>}, decode)

matchPathname(rt, pathname, params, decode) ==
  matchDecoded(rt, parse(rt.path), decodeURIComponent(pathname), params, decode)

\* a match that hands the whole path, query string included, to the expression
matchWhole(rt, path, params, decode) ==
  matchPathname(rt, path, params, decode)

\* Route.match(path, params): [err, ok, params]; err is a thrown URIError
match(rt, path, params, decode) ==
  matchPathname(rt, SplitFirst(path, "?"), params, decode)

(***************************************************************************)
(* The browser side: a URL is [pathname, search, hash] and a history entry *)
(* [state, url, ctx]; state is the persisted state.path, or NoState for    *)
(* the entry the document was loaded with (history.state = null); ctx is   *)
(* the context that wrote the entry (0: none), kept for the properties.    *)
(***************************************************************************)
NoState == <<"null">>

\* a URL that starts with its path: [pathname, search, hash]
SplitUrl(beforeHash, hash) ==
  [pathname |-> SplitFirst(beforeHash, "?"),
   search |-> IF Len(beforeHash) - Len(SplitFirst(beforeHash, "?")) <= 1 THEN << >>
              ELSE SliceFrom(beforeHash, Len(SplitFirst(beforeHash, "?"))),
   hash |-> IF Len(hash) <= 1 THEN << >> ELSE hash]

ParseUrl(url) ==
  SplitUrl(SplitFirst(url, "#"), SliceFrom(url, Len(SplitFirst(url, "#"))))

\* the URL that `url` names when resolved against loc
ResolveParsed(loc, url, u) ==
  IF url = << >> THEN [loc EXCEPT !.hash = << >>]
  ELSE IF url[1] = "#" THEN [loc EXCEPT !.hash = u.hash]
  ELSE IF url[1] = "?" THEN [loc EXCEPT !.search = u.search, !.hash = u.hash]
  ELSE u

Resolve(loc, url) == ResolveParsed(loc, url, ParseUrl(url))

(***************************************************************************)
(* The state of the controller and of its browser.                         *)
(*   callbacks, exits  the middleware lists: [route, fn, to]; fn is "user" *)
(*                     for an application handler and "redirect" for the   *)
(*                     handler that redirect(from, to) registers           *)
(*   conf              _window set?, _hashbang, _decodeURLComponents,      *)
(*                     _base, _strict, popstate listener bound?            *)
(*   ctxs              every Context constructed so far; a context is      *)
(*                     named by its index                                  *)
(*   disp              the closures of the dispatch calls: [ctx, prev, i,  *)
(*                     j]                                                  *)
(*   stack             the call stack of the running turn, top last        *)
(*   timers            pending setTimeout callbacks                        *)
(*   entries, hidx     session history and the current entry               *)
(*   pendingBack       history.back() traversals not yet performed         *)
(*   href              the URLs assigned to window.location.href           *)
(*   log               what happened, in order (for the properties)        *)
(*   ops               calls of the application that had an effect         *)
(*   probe             one exercise of the pattern compiler on its own:    *)
(*                     its inputs and, stage by stage, its results         *)
(***************************************************************************)
VARIABLES callbacks, exits, conf, current, len, running, prevContext,
          ctxs, disp, stack, timers, entries, hidx, pendingBack, href, log, ops,
          probe

pageVars == <<callbacks, exits, conf, current, len, running, prevContext,
              ctxs, disp, stack, timers, entries, hidx, pendingBack, href, log, ops>>

vars == <<pageVars, probe>>

\* The mutable state as one value; every function of the code is an operator
\* from such a value to the value it leaves.
Cur ==
  [conf |-> conf, current |-> current, len |-> len, running |-> running,
   prevContext |-> prevContext, ctxs |-> ctxs, disp |-> disp, stack |-> stack,
   timers |-> timers, entries |-> entries, hidx |-> hidx,
   pendingBack |-> pendingBack, href |-> href, log |-> log, ops |-> ops]

Commit(S) ==
  /\ conf' = S.conf
  /\ current' = S.current
  /\ len' = S.len
  /\ running' = S.running
  /\ prevContext' = S.prevContext
  /\ ctxs' = S.ctxs
  /\ disp' = S.disp
  /\ stack' = S.stack
  /\ timers' = S.timers
  /\ entries' = S.entries
  /\ hidx' = S.hidx
  /\ pendingBack' = S.pendingBack
  /\ href' = S.href
  /\ log' = S.log
  /\ ops' = S.ops
  /\ UNCHANGED <<callbacks, exits, probe>>

\* window.location
Location(S) == S.entries[S.hidx].url

PageOf(S) ==
  [base |-> S.conf.base, hashbang |-> S.conf.hashbang, decode |-> S.conf.decode,
   protocolFile |-> FALSE, locPathname |-> Location(S).pathname]

Push(S, frame) == [S EXCEPT !.stack = Append(@, frame)]
Pop(S) == [S EXCEPT !.stack = SubSeq(@, 1, Len(@) - 1)]
Top(S) == S.stack[Len(S.stack)]

\* unhandled's reading of the browser's current address
CurrentAddress(S) ==
  IF S.conf.hashbang
  THEN getBase(PageOf(S)) \o RemoveFirst(Location(S).hash, <<"#", "!">>)
  ELSE Location(S).pathname \o Location(S).search

\* The record of what happened, kept for the properties: the event e about
\* the context ctx (0: none), for the middleware idx of phase ph in the
\* dispatch d where that applies, with what the page and the browser hold
\* once it has happened.
Event(S, e, ctx, ph, idx, d, flags, arg) ==
  [e |-> e, ctx |-> ctx, ph |-> ph, idx |-> idx, d |-> d, flags |-> flags,
   arg |-> arg, len |-> S.len, cur |-> S.current, at |-> CurrentAddress(S), entry |-> S.hidx,
   handled |-> IF ctx = 0 THEN "" ELSE S.ctxs[ctx].handled]

Ev(S, e, ctx, ph, idx, d) ==
  [S EXCEPT !.log = Append(@, Event(S, e, ctx, ph, idx, d, {}, << >>))]

\* a timer's callback starts
EvTimer(S, task) ==
  [S EXCEPT !.log = Append(@, Event(S, "timer", 0, task.kind, 0, task.d, {},
                                    task.path))]

\* the dispatch of the handler that is running, 0 if none is
Caller(S) == IF S.stack # << >> /\ Top(S).k = "fn" THEN Top(S).d ELSE 0

\* a call of the page with the path arg: by the handler that is running if
\* one is, told to dispatch and to push or not
EvCall(S, e, ctx, flags, arg) ==
  [S EXCEPT !.log = Append(@,
     IF S.stack # << >> /\ Top(S).k = "fn"
     THEN Event(S, e, ctx, Top(S).ph, Top(S).idx, Top(S).d, flags, arg)
     ELSE Event(S, e, ctx, "", 0, 0, flags, arg))]

Frame(k, d, ctx, ph, idx, push) ==
  [k |-> k, d |-> d, ctx |-> ctx, ph |-> ph, idx |-> idx, push |-> push,
   acted |-> FALSE]

\* an exception that is caught where it is thrown
ThrowCaught(S) == Ev(Pop(S), "throw", 0, "", 0, 0)

\* an exception nobody catches: it leaves every function of the turn
Throw(S) == Ev([S EXCEPT !.stack = << >>], "throw", 0, "", 0, 0)

\* decodeURIComponent throws on the string arg, met while context ctx (0: the
\* one under construction) is worked on
URIError(S, ctx, arg) ==
  [S EXCEPT !.log = Append(@, Event(S, "URIError", ctx, "", 0, 0, {}, arg))]

\* the URL form that pushState and save persist
PersistedUrl(S, c) ==
  IF S.conf.hashbang /\ S.ctxs[c].path # <<"/">>
  THEN <<"#", "!">> \o S.ctxs[c].path
  ELSE S.ctxs[c].canonicalPath

EntryOf(S, c) ==
  [state |-> S.ctxs[c].state.path, url |-> Resolve(Location(S), PersistedUrl(S, c)),
   ctx |-> c]

\* Context.pushState()
pushState(S, c) ==
  Ev([S EXCEPT !.len = @ + 1,
               !.entries = Append(SubSeq(@, 1, S.hidx), EntryOf(S, c)),
               !.hidx = @ + 1],
     "pushState", c, "", 0, 0)

\* a save that adds an entry instead of replacing the current one
savePushing(S, c) == pushState(S, c)

\* Context.save()
save(S, c) ==
  Ev([S EXCEPT !.entries[S.hidx] = EntryOf(S, c)], "replaceState", c, "", 0, 0)

\* a stop that leaves len as it is
stopKeepingLen(S) ==
  IF ~S.running THEN Ev(S, "stop", 0, "idle", 0, 0)
  ELSE Ev([S EXCEPT !.current = << >>, !.running = FALSE, !.conf.popstate = FALSE],
          "stop", 0, "", 0, 0)

\* Page.stop(); the record tells a call that found the page not running
\* ("idle") from one that reset it
stop(S) ==
  IF ~S.running THEN Ev(S, "stop", 0, "idle", 0, 0)
  ELSE Ev([S EXCEPT !.current = << >>, !.len = 0, !.running = FALSE,
                    !.conf.popstate = FALSE],
          "stop", 0, "", 0, 0)

\* the last three lines of unhandled, on the state stop() left
escalate(S, c) ==
  Ev([S EXCEPT !.ctxs[c].handled = "false",
               !.href = Append(@, S.ctxs[c].canonicalPath)],
     "href", c, "", 0, 0)

\* the test the wrong way round
SameAddressInverted(address, canonicalPath) == address # canonicalPath

\* unhandled's test that the browser is already at the context's address
SameAddress(address, canonicalPath) == address = canonicalPath

\* an unhandled that does not look at ctx.handled
unhandledUnasked(S, c) ==
  IF SameAddress(CurrentAddress(S), S.ctxs[c].canonicalPath) THEN S
  ELSE escalate(stop(S), c)

unhandledBody(S, c) ==
  IF S.ctxs[c].handled = "true" THEN S
  ELSE IF SameAddress(CurrentAddress(S), S.ctxs[c].canonicalPath) THEN S
  ELSE escalate(stop(S), c)

\* unhandled.call(page, ctx)
unhandled(S, c) == unhandledBody(Ev(S, "unhandled", c, "", 0, 0), c)

\* a dispatch that goes straight to the enter phase
FirstPhaseEnter(prev) == "enter"

\* the phase Page.dispatch starts with (prev = 0: no previous context)
FirstPhase(prev) == IF prev # 0 THEN "exit" ELSE "enter"

\* Page.dispatch(context, prev): the closure is made and its first step called
dispatch(S, c, prev) ==
  Push([S EXCEPT !.disp = Append(@, [ctx |-> c, prev |-> prev, i |-> 0, j |-> 0])],
       Frame(FirstPhase(prev), Len(S.disp) + 1, c, "", 0, FALSE))

\* a show that pushes whatever became of the context
ShouldPushUnhandled(handled, push) == push

\* whether show pushes, once dispatch has returned
ShouldPush(handled, push) == handled # "false" /\ push

\* a show that writes its context into the current entry when it does not push
showReturnSaving(S, c, push) ==
  Ev(IF ShouldPush(S.ctxs[c].handled, push) THEN pushState(S, c) ELSE save(S, c),
     "shown", c, "", 0, 0)

\* the tail of Page.show, after dispatch has returned
showReturn(S, c, push) ==
  Ev(IF ShouldPush(S.ctxs[c].handled, push) THEN pushState(S, c) ELSE S,
     "shown", c, "", 0, 0)

\* the arguments of a call that the record keeps
Flags(dispatchFlag, push) ==
  (IF dispatchFlag THEN {"dispatch"} ELSE {}) \cup (IF push THEN {"push"} ELSE {})

\* a call that remembers its context only when it is to dispatch it
enterUndispatched(S, context, e, flags, arg) ==
  EvCall([S EXCEPT !.ctxs = Append(@, context),
                   !.prevContext = IF "dispatch" \in flags THEN Len(S.ctxs) + 1 ELSE @,
                   !.current = context.path],
         e, Len(S.ctxs) + 1, flags, arg)

\* the context is remembered and current updated (show and replace)
enter(S, context, e, flags, arg) ==
  EvCall([S EXCEPT !.ctxs = Append(@, context),
                   !.prevContext = Len(S.ctxs) + 1,
                   !.current = context.path],
         e, Len(S.ctxs) + 1, flags, arg)

\* Page.show once the context is entered: S1 is the state then, c the context
showDispatch(S1, c, prev, dispatchFlag, push) ==
  IF dispatchFlag THEN dispatch(Push(S1, Frame("show", 0, c, "", 0, push)), c, prev)
  ELSE showReturn(S1, c, push)

showContext(S, path, context, dispatchFlag, push) ==
  IF ~S.conf.window THEN Throw(S)
  ELSE IF context.err THEN Throw(URIError(S, 0, path))
  ELSE showDispatch(enter(S, context, "show", Flags(dispatchFlag, push), path),
                    Len(S.ctxs) + 1, S.prevContext, dispatchFlag, push)

\* Page.show(path, state, dispatch, push)
show(S, path, dispatchFlag, push) ==
  showContext(S, path, NewContext(path, PageOf(S)), dispatchFlag, push)

\* Page.replace once the context is saved
replaceDispatch(S2, c, prev, dispatchFlag) ==
  IF dispatchFlag THEN dispatch(S2, c, prev) ELSE S2

replaceContext(S, path, context, dispatchFlag) ==
  IF ~S.conf.window THEN Throw(S)
  ELSE IF context.err THEN Throw(URIError(S, 0, path))
  ELSE replaceDispatch(save(enter(S, context, "replace", Flags(dispatchFlag, FALSE),
                                  path),
                            Len(S.ctxs) + 1),
                       Len(S.ctxs) + 1, S.prevContext, dispatchFlag)

\* Page.replace(path, state, init, dispatch)
replace(S, path, init, dispatchFlag) ==
  replaceContext(S, path, [NewContext(path, PageOf(S)) EXCEPT !.init = init],
                 dispatchFlag)

Task(kind, path, ph, d, delay) ==
  [kind |-> kind, path |-> path, ph |-> ph, d |-> d, delay |-> delay]

\* setTimeout(callback, delay)
setTimeout(S, task) == [S EXCEPT !.timers = Append(@, task)]

\* no fallback path given to back
NoPath == <<"undefined">>

\* a back that forgets to count the entry it leaves
backKeepingLen(S, path) ==
  IF S.len > 0
  THEN EvCall([S EXCEPT !.pendingBack = @ + 1], "back", 0, {}, path)
  ELSE IF path # NoPath /\ path # << >>
  THEN setTimeout(EvCall(S, "fallback", 0, {}, path), Task("show", path, "", 0, 0))
  ELSE setTimeout(EvCall(S, "fallback", 0, {}, path),
                  Task("show", getBase(PageOf(S)), "", 0, 0))

\* a back that shows the fallback path at once
backAtOnce(S, path) ==
  IF S.len > 0
  THEN EvCall([S EXCEPT !.pendingBack = @ + 1, !.len = @ - 1], "back", 0, {}, path)
  ELSE IF path # NoPath /\ path # << >>
  THEN show(EvCall(S, "fallback", 0, {}, path), path, TRUE, TRUE)
  ELSE show(EvCall(S, "fallback", 0, {}, path), getBase(PageOf(S)), TRUE, TRUE)

\* Page.back(path, state)
back(S, path) ==
  IF S.len > 0
  THEN EvCall([S EXCEPT !.pendingBack = @ + 1, !.len = @ - 1], "back", 0, {}, path)
  ELSE IF path # NoPath /\ path # << >>
  THEN setTimeout(EvCall(S, "fallback", 0, {}, path), Task("show", path, "", 0, 0))
  ELSE setTimeout(EvCall(S, "fallback", 0, {}, path),
                  Task("show", getBase(PageOf(S)), "", 0, 0))

\* a redirect that calls replace at once
redirectAtOnce(S, from) == replace(EvCall(S, "redirect", 0, {}, from), from, FALSE, TRUE)

\* Page.redirect(from) with `to` undefined
redirect(S, from) ==
  setTimeout(EvCall(S, "redirect", 0, {}, from),
             Task("replace", from, "", Caller(S), 0))

\* the url Page.start reads from the location
StartUrl(loc, hashbang) ==
  IF hashbang /\ IndexOf(loc.hash, <<"#", "!">>) # -1
  THEN SliceFrom(loc.hash, 2) \o loc.search
  ELSE IF hashbang THEN loc.search \o loc.hash
  ELSE loc.pathname \o loc.search \o loc.hash

\* Page.configure(options)
configure(S, hashbang, decode) ==
  [S EXCEPT !.conf.window = TRUE, !.conf.decode = decode,
            !.conf.popstate = TRUE, !.conf.hashbang = hashbang]

\* Page.start(options)
start(S, hashbang, decode, dispatchFlag) ==
  IF ~dispatchFlag THEN configure(S, hashbang, decode)
  ELSE replace([configure(S, hashbang, decode) EXCEPT !.running = TRUE],
               StartUrl(Location(S), hashbang), TRUE, dispatchFlag)

\* the wrapper calling its handler whatever self.match returned
MatchedAlways(r) == TRUE

\* the wrapper's test of what self.match returned
Matched(r) == r.ok

\* a wrapper that goes on to the next middleware once its handler returns
middlewareThrough(S, r, c, d, ph, idx) ==
  IF r.err THEN Throw(URIError([S EXCEPT !.ctxs[c].params = r.params], c, S.ctxs[c].path))
  ELSE IF Matched(r)
  THEN Ev(Push([S EXCEPT !.ctxs[c].params = r.params], Frame("fn", d, c, ph, idx, FALSE)),
          "call", c, ph, idx, d)
  ELSE [S EXCEPT !.ctxs[c].params = r.params]

\* the wrapper's two branches, r being the result of self.match
middlewareMatched(S, r, c, d, ph, idx) ==
  IF r.err THEN Throw(URIError([S EXCEPT !.ctxs[c].params = r.params], c, S.ctxs[c].path))
  ELSE IF Matched(r)
  THEN Ev(Push(Pop([S EXCEPT !.ctxs[c].params = r.params]),
               Frame("fn", d, c, ph, idx, FALSE)),
          "call", c, ph, idx, d)
  ELSE [S EXCEPT !.ctxs[c].params = r.params]

\* the wrapper Route.middleware(fn) returns, called as fn(ctx, next) from
\* nextExit or nextEnter (ph) for the middleware mw at position idx
middleware(S, mw, c, d, ph, idx) ==
  middlewareMatched(S,
    match(mw.route, S.ctxs[c].path, S.ctxs[c].params, S.conf.decode),
    c, d, ph, idx)

\* a nextEnter that never takes a context for stale
StaleNever(ctxPath, cur) == FALSE

\* the guard of nextEnter
Stale(ctxPath, cur) == ctxPath # cur

\* a guard that takes the push of the stale context back
nextEnterAtRetracting(S1, d, c, i) ==
  IF Stale(S1.ctxs[c].path, S1.current)
  THEN Ev(Pop([S1 EXCEPT !.ctxs[c].handled = "false",
                         !.len = IF @ > 0 THEN @ - 1 ELSE @]),
          "guard", c, "enter", i, d)
  ELSE IF i > Len(callbacks) THEN unhandled(Pop(S1), c)
  ELSE middleware(S1, callbacks[i], c, d, "enter", i)

\* a nextEnter that looks for the end of the list before it compares paths
nextEnterAtUnguardedEnd(S1, d, c, i) ==
  IF i > Len(callbacks) THEN unhandled(Pop(S1), c)
  ELSE IF Stale(S1.ctxs[c].path, S1.current)
  THEN Ev(Pop([S1 EXCEPT !.ctxs[c].handled = "false"]), "guard", c, "enter", i, d)
  ELSE middleware(S1, callbacks[i], c, d, "enter", i)

\* nextEnter of the dispatch closure d, after fn = callbacks[i++]
nextEnterAt(S1, d, c, i) ==
  IF Stale(S1.ctxs[c].path, S1.current)
  THEN Ev(Pop([S1 EXCEPT !.ctxs[c].handled = "false"]), "guard", c, "enter", i, d)
  ELSE IF i > Len(callbacks) THEN unhandled(Pop(S1), c)
  ELSE middleware(S1, callbacks[i], c, d, "enter", i)

nextEnter(S, d) ==
  nextEnterAt([S EXCEPT !.disp[d].i = @ + 1], d, S.disp[d].ctx, S.disp[d].i + 1)

\* an exit phase handing the new context to the exit middleware
ExitArgNew(closure) == closure.ctx

\* the context nextExit hands to an exit middleware
ExitArg(closure) == closure.prev

\* nextExit of the dispatch closure d, after fn = exits[j++]
nextExitAt(S1, d, j) ==
  IF j > Len(exits)
  THEN Push(Pop(S1), Frame("enter", d, S1.disp[d].ctx, "", 0, FALSE))
  ELSE middleware(S1, exits[j], ExitArg(S1.disp[d]), d, "exit", j)

nextExit(S, d) == nextExitAt([S EXCEPT !.disp[d].j = @ + 1], d, S.disp[d].j + 1)

\* Page._onpopstate(e) for the entry the browser has moved to
onpopstate(S) ==
  IF S.entries[S.hidx].state # NoState
  THEN replace(S, S.entries[S.hidx].state, FALSE, TRUE)
  ELSE show(S, Location(S).pathname \o Location(S).search \o Location(S).hash,
            TRUE, FALSE)

(***************************************************************************)
(* Bounds and inputs.                                                      *)
(***************************************************************************)
\* what the application does besides continuing: calls from outside or from
\* inside a handler, timers a handler sets, assignments to ctx.handled
MaxOps == 3

\* the same bound for the runs that follow one show to its late continuation
LateOps == 4

\* the number of calls a run may make
Budget == IF probe.kind = "late" THEN LateOps ELSE MaxOps

A == <<"/", "a">>
B == <<"/", "b">>
Paths == {A, B}

\* a path whose percent sign starts no escape
Malformed == <<"/", "%">>
CallPaths == Paths \cup {Malformed}

\* the address the document was loaded from
InitialUrl == [pathname |-> <<"/">>, search |-> << >>, hash |-> << >>]

\* page.route(path, fn) / page.exit(path, fn): the list with the middleware added
route(list, path, pageStrict) ==
  Append(list, [route |-> Route(path, pageStrict), fn |-> "user", to |-> << >>])

\* page.redirect(from, to): the route it registers
redirectRoute(list, from, to, pageStrict) ==
  Append(list, [route |-> Route(from, pageStrict), fn |-> "redirect", to |-> to])

\* The registrations the model starts from: [callbacks, exits]
Configs ==
  { [callbacks |-> route(route(route(<< >>, <<"/", "b", "/", "*">>, FALSE), A, FALSE),
                         <<"*">>, FALSE),
     exits |-> route(<< >>, A, FALSE)],
    [callbacks |-> route(redirectRoute(<< >>, A, B, FALSE), B, FALSE),
     exits |-> << >>],
    [callbacks |-> route(route(<< >>, A, FALSE), <<"/", ":", "x">>, FALSE),
     exits |-> route(route(<< >>, B, FALSE), <<"*">>, FALSE)],
    [callbacks |-> << >>,
     exits |-> route(<< >>, A, FALSE)],
    [callbacks |-> route(<< >>, A, FALSE),
     exits |-> route(route(<< >>, <<"*">>, FALSE), <<"*">>, FALSE)] }

\* a value of probe when the pattern compiler is not being exercised
NoProbe ==
  [kind |-> "none", stage |-> "idle", pattern |-> << >>, arg |-> << >>,
   strict |-> FALSE, tests |-> << >>, built |-> [err |-> FALSE, val |-> << >>],
   m |-> [ok |-> FALSE, caps |-> << >>],
   opt |-> [decode |-> TRUE, hashbang |-> FALSE, query |-> << >>, base |-> << >>],
   out |-> << >>, inner |-> << >>]

\* the page as constructed, with the routes of configuration k registered
PageInit(k) ==
  /\ callbacks = k.callbacks /\ exits = k.exits
  /\ conf = [window |-> FALSE, hashbang |-> FALSE, decode |-> TRUE, base |-> << >>,
             strict |-> FALSE, popstate |-> FALSE]
  /\ current = << >>
  /\ len = 0
  /\ running = FALSE
  /\ prevContext = 0
  /\ ctxs = << >>
  /\ disp = << >>
  /\ stack = << >>
  /\ timers = << >>
  /\ entries = <<[state |-> NoState, url |-> InitialUrl, ctx |-> 0]>>
  /\ hidx = 1
  /\ pendingBack = 0
  /\ href = << >>
  /\ log = << >>
  /\ ops = 0

Init == (\E k \in Configs : PageInit(k)) /\ probe = NoProbe

(***************************************************************************)
(* Actions.  A turn starts when the stack is empty: a call by the          *)
(* application, a timer, or a popstate event; it then runs to completion,  *)
(* one function step at a time, before the next turn starts.  Assigning    *)
(* location.href unloads the document once the turn is over.               *)
(***************************************************************************)
Idle == stack = << >> /\ href = << >>

CanCall == Idle /\ ops < Budget

\* anything that changed the state counts
Called(S) == IF S = Cur THEN S ELSE [S EXCEPT !.ops = @ + 1]

AppStart(hashbang, decode, dispatchFlag) ==
  /\ CanCall
  /\ Commit(Called(start(Cur, hashbang, decode, dispatchFlag)))

AppShow(path, dispatchFlag, push) ==
  /\ CanCall
  /\ Commit(Called(show(Cur, path, dispatchFlag, push)))

AppReplace(path, dispatchFlag) ==
  /\ CanCall
  /\ Commit(Called(replace(Cur, path, FALSE, dispatchFlag)))

AppBack(path) ==
  /\ CanCall
  /\ Commit(Called(back(Cur, path)))

AppStop ==
  /\ CanCall
  /\ Commit(Called(stop(Cur)))

\* a timer may fire when no timer set before it is due as early
Due(i) == \A k \in 1..(i - 1) : timers[k].delay > timers[i].delay

\* the timer leaves the queue as its callback starts
Fired(S, i) ==
  EvTimer([S EXCEPT !.timers = SubSeq(@, 1, i - 1) \o SubSeq(@, i + 1, Len(@))],
          S.timers[i])

\* a continuation that does nothing when it is called late
resumeIdle(S, ph, d) ==
  Ev(S, "next",
     IF ph = "exit" THEN S.disp[d].prev ELSE S.disp[d].ctx, ph,
     IF ph = "exit" THEN S.disp[d].j ELSE S.disp[d].i, d)

\* the continuation a handler kept is called: the handler was the last one
\* its dispatch fetched
resume(S, ph, d) ==
  Ev(Push(S, Frame(ph, d, 0, "", 0, FALSE)), "next",
     IF ph = "exit" THEN S.disp[d].prev ELSE S.disp[d].ctx, ph,
     IF ph = "exit" THEN S.disp[d].j ELSE S.disp[d].i, d)

\* the callback back() deferred: show(path, state)
FireShow(i) ==
  /\ Idle /\ i \in 1..Len(timers) /\ Due(i)
  /\ timers[i].kind = "show"
  /\ Commit(show(Fired(Cur, i), timers[i].path, TRUE, TRUE))

\* the callback redirect() deferred: replace(to)
FireReplace(i) ==
  /\ Idle /\ i \in 1..Len(timers) /\ Due(i)
  /\ timers[i].kind = "replace"
  /\ Commit(replace(Fired(Cur, i), timers[i].path, FALSE, TRUE))

\* a handler's own timer calls the continuation it was given
FireNext(i) ==
  /\ Idle /\ i \in 1..Len(timers) /\ Due(i)
  /\ timers[i].kind = "next"
  /\ Commit(resume(Fired(Cur, i), timers[i].ph, timers[i].d))

\* the traversal's popstate event reaches the listener if it is bound
traverse(S1) == IF hidx > 1 /\ conf.popstate THEN onpopstate(S1) ELSE S1

\* the browser performs a history.back() traversal and fires popstate
PopState ==
  /\ Idle /\ pendingBack > 0
  /\ Commit(traverse(Ev([Cur EXCEPT !.pendingBack = @ - 1,
                                    !.hidx = IF @ > 1 THEN @ - 1 ELSE @],
                        "popstate", 0, "", 0, 0)))

Running(k) == stack # << >> /\ Top(Cur).k = k

StepExit == Running("exit") /\ Commit(nextExit(Cur, Top(Cur).d))

StepEnter == Running("enter") /\ Commit(nextEnter(Cur, Top(Cur).d))

ShowReturn ==
  /\ Running("show")
  /\ Commit(showReturn(Pop(Cur), Top(Cur).ctx, Top(Cur).push))

Middleware(f) == IF f.ph = "exit" THEN exits[f.idx] ELSE callbacks[f.idx]

InUser == Running("fn") /\ Middleware(Top(Cur)).fn = "user"

Acted(S) == [S EXCEPT !.stack[Len(S.stack)].acted = TRUE, !.ops = @ + 1]

callNext(S, f) ==
  Ev(Push(Pop(S), Frame(f.ph, f.d, 0, "", 0, FALSE)), "next", f.ctx, f.ph, f.idx, f.d)

\* the handler calls next()
HandlerNext ==
  /\ InUser
  /\ Commit(callNext(Cur, Top(Cur)))

\* an engine that goes on with the exit list when an exit handler returns
HandlerReturnAdvancing ==
  /\ InUser
  /\ Commit(IF Top(Cur).ph = "exit"
            THEN Push(Pop(Cur), Frame("exit", Top(Cur).d, 0, "", 0, FALSE))
            ELSE Pop(Cur))

\* an engine that takes a returning enter handler for the end of the list
HandlerReturnEscalating ==
  /\ InUser
  /\ Commit(IF Top(Cur).ph = "enter" THEN unhandled(Pop(Cur), Top(Cur).ctx)
            ELSE Pop(Cur))

\* an engine that marks the context handled when an enter handler returns
HandlerReturnHandled ==
  /\ InUser
  /\ Commit(IF Top(Cur).ph = "enter"
            THEN [Pop(Cur) EXCEPT !.ctxs[Top(Cur).ctx].handled = "true"]
            ELSE Pop(Cur))

\* the handler returns without calling next()
HandlerReturn == InUser /\ Commit(Pop(Cur))

\* the handler returns after setting a timer that will call next()
HandlerDefer ==
  /\ InUser /\ ops < Budget
  /\ Commit(setTimeout(Ev(Pop(Acted(Cur)), "defer", Top(Cur).ctx, Top(Cur).ph,
                          Top(Cur).idx, Top(Cur).d),
                       Task("next", << >>, Top(Cur).ph, Top(Cur).d, 10)))

\* the handler assigns ctx.handled
HandlerSetHandled(v) ==
  /\ InUser /\ ~Top(Cur).acted /\ ops < Budget /\ Top(Cur).ph = "enter"
  /\ Commit(Ev([Acted(Cur) EXCEPT !.ctxs[Top(Cur).ctx].handled = v],
               "assign", Top(Cur).ctx, "enter", Top(Cur).idx, Top(Cur).d))

\* the handler throws
HandlerThrow ==
  /\ InUser /\ ops < Budget
  /\ Commit(Throw(Ev(Acted(Cur), "raise", Top(Cur).ctx, Top(Cur).ph, Top(Cur).idx,
                     Top(Cur).d)))

\* the handler calls page.show(path)
HandlerShow(path) ==
  /\ InUser /\ ~Top(Cur).acted /\ ops < Budget
  /\ Commit(show(Acted(Cur), path, TRUE, TRUE))

\* the handler calls page.replace(path)
HandlerReplace(path) ==
  /\ InUser /\ ~Top(Cur).acted /\ ops < Budget
  /\ Commit(replace(Acted(Cur), path, FALSE, TRUE))

\* the handler calls page.redirect(path)
HandlerRedirect(path) ==
  /\ InUser /\ ~Top(Cur).acted /\ ops < Budget
  /\ Commit(redirect(Acted(Cur), path))

\* the handler redirect(from, to) registered: setTimeout(() => replace(to), 0)
RedirectHandler ==
  /\ Running("fn") /\ Middleware(Top(Cur)).fn = "redirect"
  /\ Commit(Pop(redirect(Cur, Middleware(Top(Cur)).to)))

Next ==
  \/ \E c \in BOOLEAN, d \in BOOLEAN : AppStart(FALSE, c, d)
  \/ \E p \in CallPaths, d \in BOOLEAN, q \in BOOLEAN : AppShow(p, d, q)
  \/ \E p \in CallPaths, d \in BOOLEAN : AppReplace(p, d)
  \/ \E p \in Paths \cup {NoPath} : AppBack(p)
  \/ AppStop
  \/ \E i \in 1..Len(timers) : FireShow(i)
  \/ \E i \in 1..Len(timers) : FireReplace(i)
  \/ \E i \in 1..Len(timers) : FireNext(i)
  \/ PopState
  \/ StepExit
  \/ StepEnter
  \/ ShowReturn
  \/ HandlerNext
  \/ HandlerReturn
  \/ HandlerDefer
  \/ HandlerThrow
  \/ \E v \in {"true", "false"} : HandlerSetHandled(v)
  \/ \E p \in Paths : HandlerShow(p)
  \/ \E p \in Paths : HandlerReplace(p)
  \/ \E p \in Paths : HandlerRedirect(p)
  \/ RedirectHandler

Spec == Init /\ [][Next]_vars

\* The page with an enter route for each path and an exit route for every
\* path; the calls are start, show and replace, and the handlers call their
\* continuation at once, from a timer, or not at all.
LateConfig ==
  [callbacks |-> route(route(<< >>, A, FALSE), B, FALSE),
   exits |-> route(<< >>, <<"*">>, FALSE)]

LateInit == PageInit(LateConfig) /\ probe = [NoProbe EXCEPT !.kind = "late"]

LateNext ==
  \/ \E d \in BOOLEAN : AppStart(FALSE, TRUE, d)
  \/ \E p \in Paths, q \in BOOLEAN : AppShow(p, TRUE, q)
  \/ \E p \in Paths : AppReplace(p, TRUE)
  \/ \E i \in 1..Len(timers) : FireNext(i)
  \/ StepExit
  \/ StepEnter
  \/ ShowReturn
  \/ HandlerNext
  \/ HandlerReturn
  \/ HandlerDefer

LateSpec == LateInit /\ [][LateNext]_vars

(***************************************************************************)
(* Properties, read off the record of events.                              *)
(***************************************************************************)
Pos == 1..Len(log)

\* the route at position k of the list matches the logical path of context c
RouteMatches(list, k, c) == match(list[k].route, ctxs[c].path, {}, conf.decode).ok

\* event n: the middleware k of phase ph is invoked in dispatch d
Invoked(n, ph, k, d) ==
  log[n].e = "call" /\ log[n].ph = ph /\ log[n].idx = k /\ log[n].d = d

\* event n: the middleware k of phase ph of dispatch d calls its continuation
Continued(n, ph, k, d) ==
  log[n].e = "next" /\ log[n].ph = ph /\ log[n].idx = k /\ log[n].d = d

\* before event n, middleware k was invoked and then called its continuation
RanThrough(n, ph, k, d) ==
  \E a \in 1..(n - 1) : \E b \in (a + 1)..(n - 1) :
    Invoked(a, ph, k, d) /\ Continued(b, ph, k, d)

\* C1: an enter handler is invoked only for a route that matches the
\* dispatched path (R1, which does not match, never is), and only after every
\* matching route registered before it was invoked and called its
\* continuation: R2 comes first, R3 only after and only if R2 continued.
C1_DispatchOrder ==
  \A n \in Pos : (log[n].e = "call" /\ log[n].ph = "enter") =>
    /\ RouteMatches(callbacks, log[n].idx, log[n].ctx)
    /\ \A k \in 1..(log[n].idx - 1) :
         RouteMatches(callbacks, k, log[n].ctx) => RanThrough(n, "enter", k, log[n].d)

\* R1 does not match, R2 and R3 do, and R3's handler has been invoked
C1_Witness ==
  \E n \in Pos :
    /\ Invoked(n, "enter", 3, log[n].d)
    /\ ~RouteMatches(callbacks, 1, log[n].ctx)
    /\ RouteMatches(callbacks, 2, log[n].ctx)

\* C2: in a dispatch that has a previous context, every invocation of an exit
\* handler comes before any invocation of an enter handler, and an enter
\* handler is invoked only once every exit middleware matching the previous
\* context's path was invoked and called its continuation.
C2_ExitBeforeEnter ==
  \A n \in Pos :
    (log[n].e = "call" /\ log[n].ph = "enter" /\ disp[log[n].d].prev # 0) =>
      /\ \A m \in Pos : (log[m].e = "call" /\ log[m].ph = "exit" /\ log[m].d = log[n].d)
                          => m < n
      /\ \A k \in 1..Len(exits) :
           RouteMatches(exits, k, disp[log[n].d].prev) => RanThrough(n, "exit", k, log[n].d)

\* an exit handler ran for the previous context, then an enter handler for the
\* new one
C2_Witness ==
  \E n \in Pos : \E m \in 1..(n - 1) :
    /\ log[n].e = "call" /\ log[n].ph = "enter"
    /\ log[m].e = "call" /\ log[m].ph = "exit" /\ log[m].d = log[n].d
    /\ ctxs[log[m].ctx].path # ctxs[log[n].ctx].path

\* the event that records the call of show that made context c
ShowOf(c) == CHOOSE m \in Pos : log[m].e = "show" /\ log[m].ctx = c

\* the events in which context c was pushed as a new history entry
Pushes(c) == {k \in Pos : log[k].e = "pushState" /\ log[k].ctx = c}

\* C5: when show returns, it has pushed exactly one history entry, as its
\* last act (after dispatch has returned), making len one more and the
\* browser's entry the next one, if push was not false and the context was
\* not marked handled = false; otherwise it has pushed nothing and left len
\* as it was.  Nothing but a returning show pushes.
C5_ShowPushes ==
  /\ \A n \in Pos : log[n].e = "shown" =>
       IF "push" \in log[ShowOf(log[n].ctx)].flags /\ log[n].handled # "false"
       THEN /\ Pushes(log[n].ctx) = {n - 1}
            /\ log[n - 1].len = log[n - 2].len + 1
            /\ log[n - 1].entry = log[n - 2].entry + 1
       ELSE /\ Pushes(log[n].ctx) = {}
            /\ log[n].len = log[n - 1].len
            /\ log[n].entry = log[n - 1].entry
  /\ \A k \in Pos : log[k].e = "pushState" =>
       k < Len(log) /\ log[k + 1].e = "shown" /\ log[k + 1].ctx = log[k].ctx

\* a show whose dispatch invoked a handler has returned and pushed
C5_Witness ==
  \E n \in Pos : \E k \in 1..(n - 1) :
    /\ log[n].e = "shown" /\ Pushes(log[n].ctx) = {n - 1}
    /\ log[k].e = "call" /\ log[k].ph = "enter" /\ log[k].ctx = log[n].ctx

\* len and the browser's entry as they were before event m
LenBefore(m) == IF m = 1 THEN 0 ELSE log[m - 1].len
EntryBefore(m) == IF m = 1 THEN 1 ELSE log[m - 1].entry

\* C6: replace writes its context into the current history entry right after
\* it has updated current and before any exit or enter middleware of its
\* dispatch is invoked; doing so it creates no history entry and leaves len
\* as it was, and its context is never pushed.
C6_ReplaceSaves ==
  \A m \in Pos : log[m].e = "replace" =>
    /\ m < Len(log)
    /\ log[m + 1].e = "replaceState" /\ log[m + 1].ctx = log[m].ctx
    /\ log[m + 1].cur = ctxs[log[m].ctx].path
    /\ log[m + 1].len = LenBefore(m)
    /\ log[m + 1].entry = EntryBefore(m)
    /\ Pushes(log[m].ctx) = {}
    /\ \A k \in Pos : (log[k].e = "call" /\ disp[log[k].d].ctx = log[m].ctx) => k > m + 1

\* a replace made when len was positive has saved and then invoked an exit
\* and an enter handler
C6_Witness ==
  \E m \in Pos : \E k \in Pos : \E j \in Pos :
    /\ log[m].e = "replace" /\ log[m + 1].e = "replaceState" /\ log[m + 1].len > 0
    /\ log[k].e = "call" /\ log[k].ph = "exit" /\ disp[log[k].d].ctx = log[m].ctx
    /\ log[j].e = "call" /\ log[j].ph = "enter" /\ log[j].ctx = log[m].ctx

\* the step starts with a call of back
BackCalled ==
  /\ Len(log') > Len(log)
  /\ log'[Len(log) + 1].e \in {"back", "fallback"}

\* C7: back called when len > 0 calls history.back, makes len exactly one
\* less and sets no timer (so never shows the fallback path); when it follows
\* a show that pushed, len is again what it was before that show pushed.
C7_BackDecrements ==
  [][(BackCalled /\ len > 0) =>
       /\ log'[Len(log) + 1].e = "back"
       /\ pendingBack' = pendingBack + 1
       /\ len' = len - 1
       /\ timers' = timers
       /\ (Len(log) >= 3 /\ log[Len(log)].e = "shown" /\ log[Len(log) - 1].e = "pushState")
            => len' = log[Len(log) - 2].len]_vars

\* back has been called right after a show that pushed
C7_Witness ==
  \E n \in Pos :
    /\ n >= 4 /\ log[n].e = "back"
    /\ log[n - 1].e = "shown" /\ log[n - 2].e = "pushState"
    /\ log[n].len = log[n - 3].len
    /\ timers = << >>

\* C10: an exit handler is invoked only if its route matches the logical path
\* of the dispatch's previous context, and it is handed that very context:
\* the one the preceding show or replace made; an exit middleware that does
\* not match (even when it matches the new path) is skipped, and the handlers
\* after it still run.
C10_ExitMatchesPrevious ==
  \A n \in Pos : (log[n].e = "call" /\ log[n].ph = "exit") =>
    /\ disp[log[n].d].prev # 0
    /\ log[n].ctx = disp[log[n].d].prev
    /\ log[n].ctx = disp[log[n].d].ctx - 1
    /\ RouteMatches(exits, log[n].idx, log[n].ctx)
    /\ \A k \in 1..(log[n].idx - 1) :
         IF RouteMatches(exits, k, log[n].ctx)
         THEN RanThrough(n, "exit", k, log[n].d)
         ELSE \A m \in Pos : ~Invoked(m, "exit", k, log[n].d)

\* the first exit route matches the new path but not the previous one, and
\* the second exit handler has been invoked with the previous context
C10_Witness ==
  \E n \in Pos :
    /\ Invoked(n, "exit", 2, log[n].d)
    /\ log[n].ctx = disp[log[n].d].prev
    /\ ~RouteMatches(exits, 1, disp[log[n].d].prev)
    /\ RouteMatches(exits, 1, disp[log[n].d].ctx)

\* event m: an enter handler of a dispatch calls replace for a path other
\* than the logical path of the context being dispatched
ReplacedAway(m) ==
  /\ log[m].e = "replace" /\ log[m].ph = "enter"
  /\ ctxs[log[m].ctx].path # ctxs[disp[log[m].d].ctx].path

\* event k: an enter handler of dispatch d is invoked
EnterCall(k, d) == log[k].e = "call" /\ log[k].ph = "enter" /\ log[k].d = d

\* C3 as claimed: once an enter handler for A has called replace(C), C's path
\* differing from A's, no enter handler is invoked for A's context any more,
\* and when the turn is over A's context has handled = false.
C3_Original ==
  \A m \in Pos : ReplacedAway(m) =>
    /\ \A k \in (m + 1)..Len(log) : ~EnterCall(k, log[m].d)
    /\ stack = << >> => ctxs[disp[log[m].d].ctx].handled = "false"

\* C3: once an enter handler for A has called replace(C), C's path differing
\* from A's, a later enter handler is invoked for A's context only if the
\* handler called its continuation when current was A's path again; when it
\* calls its continuation while current differs from A's path, the next thing
\* that happens is that A's context gets handled = false, and no handler
\* follows.  (When it never calls its continuation, handled is left alone.)
C3_GuardHalts ==
  \A m \in Pos : ReplacedAway(m) =>
    /\ \A k \in (m + 1)..Len(log) : EnterCall(k, log[m].d) =>
         \E b \in (m + 1)..(k - 1) :
           /\ Continued(b, "enter", log[m].idx, log[m].d)
           /\ log[b].cur = ctxs[disp[log[m].d].ctx].path
    /\ \A b \in (m + 1)..Len(log) :
         (/\ Continued(b, "enter", log[m].idx, log[m].d)
          /\ log[b].cur # ctxs[disp[log[m].d].ctx].path
          /\ b < Len(log))
         => /\ log[b + 1].e = "guard"
            /\ log[b + 1].ctx = disp[log[m].d].ctx
            /\ log[b + 1].handled = "false"
            /\ ctxs[disp[log[m].d].ctx].handled = "false"

\* a handler for A called replace(C) and then its continuation; a route
\* registered after it matches A, and the guard has marked A's context
C3_Witness ==
  \E m \in Pos : \E b \in Pos :
    /\ ReplacedAway(m) /\ b > m /\ b < Len(log)
    /\ Continued(b, "enter", log[m].idx, log[m].d)
    /\ log[b + 1].e = "guard"
    /\ \E k \in (log[m].idx + 1)..Len(callbacks) :
         RouteMatches(callbacks, k, disp[log[m].d].ctx)

\* Route.match throws on the path of context c: its pathname holds a percent
\* sign that starts no escape
Undecodable(c) == decodeURIComponent(SplitFirst(ctxs[c].path, "?")).err

NoRouteMatches(c) == \A k \in 1..Len(callbacks) : ~RouteMatches(callbacks, k, c)

\* the events in which a full page load at context c's canonical path is asked for
Hrefs(c) == {k \in Pos : log[k].e = "href" /\ log[k].ctx = c}

\* the dispatch of context c
DispOf(c) == CHOOSE d \in 1..Len(disp) : disp[d].ctx = c

\* event m: show(P) is called and dispatches, no enter route matches P, and
\* the browser's address is not P's canonical path
UnhandledShow(m) ==
  /\ log[m].e = "show" /\ "dispatch" \in log[m].flags
  /\ NoRouteMatches(log[m].ctx)
  /\ log[m].at # ctxs[log[m].ctx].canonicalPath

\* event n: an exit handler of dispatch d is invoked or calls its continuation
ExitStep(n, d) ==
  log[n].d = d /\ log[n].ph = "exit" /\ log[n].e \in {"call", "next"}

\* F is the first event after m that is not such a step of dispatch d
AfterExits(m, F, d) == ~ExitStep(F, d) /\ \A G \in (m + 1)..(F - 1) : ExitStep(G, d)

\* ...and the exit phase got there because every exit handler that was
\* invoked called its continuation at once (or none was invoked)
ExitsContinued(m, F) == F = m + 1 \/ log[F - 1].e = "next"

\* C4 as claimed: once such a show has returned, the full page load has been
\* asked for exactly once, whatever previous context and exit handlers exist.
C4_Original ==
  \A m \in Pos : \A n \in Pos :
    (UnhandledShow(m) /\ log[n].e = "shown" /\ log[n].ctx = log[m].ctx)
      => Cardinality(Hrefs(log[m].ctx)) = 1

\* C4: the full page load is asked for at most once per context.  For such a
\* show it is asked for exactly once, in its dispatch, when there is no
\* matching exit handler or each one invoked calls its continuation at once;
\* it is never asked for when an exit handler returns without calling its
\* continuation, nor when the dispatch ends in the URIError that Route.match
\* throws on a path it cannot decode.
C4_Escalation ==
  /\ \A c \in 1..Len(ctxs) : Cardinality(Hrefs(c)) <= 1
  /\ \A m \in Pos : UnhandledShow(m) =>
       \A F \in (m + 1)..Len(log) : AfterExits(m, F, DispOf(log[m].ctx)) =>
         IF ExitsContinued(m, F) /\ log[F].e = "URIError"
         THEN /\ Undecodable(log[F].ctx)
              /\ Hrefs(log[m].ctx) = {}
         ELSE IF ExitsContinued(m, F)
         THEN /\ log[F].e = "unhandled" /\ log[F].ctx = log[m].ctx
              /\ Cardinality(Hrefs(log[m].ctx)) = 1
              /\ Hrefs(log[m].ctx) \subseteq {F + 1, F + 2}
         ELSE (log[F].e = "shown" /\ log[F].ctx = log[m].ctx)
                => Hrefs(log[m].ctx) = {}

\* such a show had a previous context whose exit handler was invoked and
\* continued, and the full page load was asked for
C4_Witness ==
  \E m \in Pos : \E F \in Pos :
    /\ UnhandledShow(m) /\ F > m + 1
    /\ AfterExits(m, F, DispOf(log[m].ctx))
    /\ log[F - 1].e = "next"
    /\ Hrefs(log[m].ctx) # {}

CurBefore(m) == IF m = 1 THEN << >> ELSE log[m - 1].cur

\* event f: back was called when len was 0, and changed neither len, current
\* nor the browser's entry
BackDeferred(f) ==
  /\ log[f].e = "fallback"
  /\ LenBefore(f) = 0 /\ log[f].len = 0
  /\ log[f].cur = CurBefore(f)
  /\ log[f].entry = EntryBefore(f)

\* the path that back shows when len is 0: the one given, else the base path
FallbackPath(arg) == IF arg # NoPath /\ arg # << >> THEN arg ELSE getBase(PageOf(Cur))

\* event t: the timer that back set runs, and calls show with the fallback
\* path of some earlier call of back (the call throws if the page was never
\* started)
FallbackShown(t) ==
  /\ t < Len(log)
  /\ \E f \in 1..(t - 1) : log[f].e = "fallback" /\ log[t].arg = FallbackPath(log[f].arg)
  /\ \/ log[t + 1].e = "throw"
     \/ /\ log[t + 1].e = "show" /\ log[t + 1].arg = log[t].arg
        /\ log[t + 1].flags = {"dispatch", "push"}

\* event m: the show that back deferred
DeferredShow(m) ==
  m > 1 /\ log[m].e = "show" /\ log[m - 1].e = "timer" /\ log[m - 1].ph = "show"

\* C8 as claimed: back called when len is 0 changes neither len, current nor
\* history; a timer later calls show with the fallback path or the base
\* path; and len is 0 whenever an enter handler of that show is invoked.
C8_Original ==
  /\ \A f \in Pos : log[f].e \in {"back", "fallback"} /\ LenBefore(f) = 0 => BackDeferred(f)
  /\ \A t \in Pos : (log[t].e = "timer" /\ log[t].ph = "show") => FallbackShown(t)
  /\ \A m \in Pos : \A k \in Pos :
       (DeferredShow(m) /\ log[k].e = "call" /\ log[k].ph = "enter"
        /\ log[k].ctx = log[m].ctx)
         => log[k].len = 0

\* the step back takes when len is 0: it calls no history.back and changes
\* nothing but the timers, to which it adds the show of the fallback path
BackDefers ==
  (BackCalled /\ len = 0) =>
    /\ log'[Len(log) + 1].e = "fallback" /\ Len(log') = Len(log) + 1
    /\ len' = len /\ current' = current /\ entries' = entries /\ hidx' = hidx
    /\ pendingBack' = pendingBack /\ prevContext' = prevContext
    /\ timers' = Append(timers, Task("show", FallbackPath(log'[Len(log) + 1].arg), "", 0, 0))

\* what the record shows of back when len is 0
BackFallback ==
  /\ \A f \in Pos : log[f].e \in {"back", "fallback"} /\ LenBefore(f) = 0 => BackDeferred(f)
  /\ \A t \in Pos : (log[t].e = "timer" /\ log[t].ph = "show") =>
       /\ FallbackShown(t)
       /\ \A f \in 1..(t - 1) :
            (log[f].e = "fallback" /\ \A G \in f..t : log[G].e # "pushState")
              => log[t].len = 0
  /\ \A m \in Pos : \A k \in Pos :
       (/\ DeferredShow(m) /\ k > m
        /\ log[k].e = "call" /\ log[k].ph = "enter" /\ log[k].ctx = log[m].ctx
        /\ \A G \in (m + 1)..(k - 1) : log[G].e \in {"call", "next"} /\ log[G].d = log[k].d)
         => log[k].len = log[m - 1].len

\* C8: back called when len is 0 changes neither len, current nor history and
\* calls no history.back; it sets a timer that calls show with the fallback
\* path, or with the base path when none was given.  While the handlers of
\* that show run one after the other within that timer's turn, len is what it
\* was when the turn began, which is 0 unless something pushed since back was
\* called: show pushes only when it returns.
C8_BackFallback == []BackFallback /\ [][BackDefers]_vars

\* back was called with len 0 and no path; the timer showed the base path and
\* an enter handler of that show was invoked while len was 0
C8_Witness ==
  \E m \in Pos : \E k \in Pos : \E f \in Pos :
    /\ DeferredShow(m) /\ f < m /\ log[f].e = "fallback" /\ log[f].arg = NoPath
    /\ log[k].e = "call" /\ log[k].ph = "enter" /\ log[k].ctx = log[m].ctx
    /\ log[k].len = 0

\* event t: the timer runs that a redirect set from inside a handler of the
\* dispatch of a context that show made
RedirectStep(t) ==
  /\ log[t].e = "timer" /\ log[t].ph = "replace" /\ log[t].d # 0
  /\ \E m \in Pos : log[m].e = "show" /\ log[m].ctx = disp[log[t].d].ctx

\* the context whose dispatch called the redirect of the timer event t
Origin(t) == disp[log[t].d].ctx

\* event n, before t: the show of the redirecting context returns
ReturnedAt(n, t) == n < t /\ log[n].e = "shown" /\ log[n].ctx = Origin(t)

\* event x, before t: an exception leaves the show of the redirecting
\* context, which has not returned and never pushes
LeftAt(x, t) ==
  /\ ShowOf(Origin(t)) < x /\ x < t /\ log[x].e = "throw"
  /\ \A n \in Pos : ~(log[n].e = "shown" /\ log[n].ctx = Origin(t))
  /\ Pushes(Origin(t)) = {}

\* the timer event t is followed by the call of replace(to), which saves at once
ReplaceBegins(t) ==
  /\ t + 2 <= Len(log)
  /\ log[t + 1].e = "replace" /\ log[t + 1].arg = log[t].arg
  /\ log[t + 2].e = "replaceState" /\ log[t + 2].ctx = log[t + 1].ctx
  /\ log[t + 2].cur = ctxs[log[t + 1].ctx].path
  /\ current = log[t + 2].cur \/ Len(log) > t + 2

\* the first enter route that matches context c
FirstMatch(c) ==
  CHOOSE k \in 1..Len(callbacks) :
    RouteMatches(callbacks, k, c) /\ \A j \in 1..(k - 1) : ~RouteMatches(callbacks, j, c)

\* C9 as claimed: when the timer of a redirect made during show(A) runs (a
\* show not told to skip the push), that show has returned and pushed exactly
\* one entry; replace(to) then writes
\* to's state into that entry and makes to's path current, and once the turn
\* is over a matching enter handler has been invoked for to's context.
C9_Original ==
  \A t \in Pos : (RedirectStep(t) /\ "push" \in log[ShowOf(Origin(t))].flags) =>
    /\ \E n \in Pos : ReturnedAt(n, t) /\ Pushes(Origin(t)) = {n - 1}
    /\ ReplaceBegins(t)
    /\ \A p \in Pushes(Origin(t)) : log[t + 2].entry = log[p].entry
    /\ (stack = << >> /\ ~NoRouteMatches(log[t + 1].ctx))
         => \E k \in (t + 3)..Len(log) :
              log[k].e = "call" /\ log[k].ph = "enter" /\ log[k].ctx = log[t + 1].ctx

\* the step in which redirect is called
RedirectCalled ==
  /\ Len(log') > Len(log)
  /\ log'[Len(log) + 1].e = "redirect"

\* redirect only sets a timer for replace(to)
RedirectDefers ==
  RedirectCalled =>
    /\ current' = current /\ entries' = entries /\ hidx' = hidx /\ len' = len
    /\ prevContext' = prevContext
    /\ Len(timers') = Len(timers) + 1
    /\ timers'[Len(timers')].kind = "replace"
    /\ timers'[Len(timers')].path = log'[Len(log) + 1].arg
    /\ timers'[Len(timers')].delay = 0

\* what the record shows of the timer's turn
RedirectReplaces ==
  \A t \in Pos : RedirectStep(t) =>
    /\ \/ \E x \in Pos : LeftAt(x, t)
       \/ \E n \in Pos :
            /\ ReturnedAt(n, t)
            /\ ("push" \in log[ShowOf(Origin(t))].flags /\ log[n].handled # "false")
                 => /\ Pushes(Origin(t)) = {n - 1}
                    /\ (\A G \in (n + 1)..(t - 1) :
                          log[G].e \notin {"pushState", "replaceState", "popstate"})
                         => log[t + 2].entry = log[n - 1].entry
    /\ ReplaceBegins(t)
    /\ \A F \in (t + 3)..Len(log) :
         (/\ AfterExits(t + 2, F, DispOf(log[t + 1].ctx))
          /\ ExitsContinued(t + 2, F)
          /\ ~NoRouteMatches(log[t + 1].ctx))
         => \/ /\ log[F].e = "URIError" /\ Undecodable(log[F].ctx)
            \/ /\ log[F].e = "call" /\ log[F].ph = "enter"
               /\ log[F].ctx = log[t + 1].ctx
               /\ log[F].idx = FirstMatch(log[t + 1].ctx)

\* C9: redirect only sets a timer.  When the timer of a redirect made during
\* show(A) runs, that show is over: it has returned, and has pushed exactly
\* one entry if it was to push at all (push not false, context not marked
\* handled = false), or an exception has left it and it pushes nothing.  The
\* timer calls replace(to), which at once makes to's path current and writes
\* to's state into the browser's current entry: the entry that show pushed
\* if nothing has moved or written the history since.  The first enter
\* handler matching to is then invoked, provided every exit handler invoked
\* in that dispatch calls its continuation at once, unless Route.match
\* throws a URIError on a path it cannot decode.
C9_RedirectDeferred == []RedirectReplaces /\ [][RedirectDefers]_vars

\* the route redirect(from, to) registered ran during show(from); the show
\* pushed, the timer wrote to's state into that entry and the handler
\* registered for to was invoked
C9_Witness ==
  \E t \in Pos : \E n \in Pos : \E k \in Pos : \E q \in Pos :
    /\ RedirectStep(t) /\ ReturnedAt(n, t) /\ Pushes(Origin(t)) = {n - 1}
    /\ q < n /\ log[q].e = "redirect" /\ callbacks[log[q].idx].fn = "redirect"
    /\ k > t + 2 /\ log[t + 2].e = "replaceState" /\ log[t + 2].entry = log[n - 1].entry
    /\ log[k].e = "call" /\ log[k].ph = "enter" /\ log[k].ctx = log[t + 1].ctx
    /\ callbacks[log[k].idx].fn = "user"

\* the events that record a call of show or replace whose context was made
Calls == {n \in Pos : log[n].e \in {"show", "replace"}}

\* the context of the latest such call before event m (0: there is none)
LatestBefore(m) ==
  IF \A k \in Calls : k >= m THEN 0
  ELSE log[CHOOSE k \in Calls : k < m /\ \A j \in Calls : j < m => j <= k].ctx

\* C11: every call of show or replace that makes its context records it as
\* the previous context, told to dispatch or not (a call that throws before
\* its context is made records nothing): prevContext is always the context
\* made last.  So the previous context of a dispatch, which is what its exit
\* handlers are handed, is the context of the latest call before the one
\* dispatching, whether or not that context was dispatched itself.
C11_PrevRecorded ==
  /\ prevContext = Len(ctxs)
  /\ \A c \in 1..Len(ctxs) : \E n \in Calls : log[n].ctx = c
  /\ \A n \in Calls : \A d \in 1..Len(disp) :
       disp[d].ctx = log[n].ctx => disp[d].prev = LatestBefore(n)
  /\ \A n \in Pos : (log[n].e = "call" /\ log[n].ph = "exit") =>
       \E m \in Calls : log[m].ctx = disp[log[n].d].ctx /\ log[n].ctx = LatestBefore(m)

\* an exit handler has been handed the context of a call that was told not
\* to dispatch
C11_Witness ==
  \E n \in Pos : \E m \in Calls :
    /\ log[n].e = "call" /\ log[n].ph = "exit"
    /\ log[m].ctx = log[n].ctx
    /\ "dispatch" \notin log[m].flags

\* event n: the enter list of context c's dispatch is exhausted, and the
\* context is marked handled = true
ExhaustedHandled(n, c) ==
  log[n].e = "unhandled" /\ log[n].ctx = c /\ log[n].handled = "true"

\* context c was made by a call of show that has not returned before event n
ShowPending(n, c) ==
  /\ \E m \in 1..(n - 1) : log[m].e = "show" /\ log[m].ctx = c
  /\ \A m \in 1..(n - 1) : ~(log[m].e = "shown" /\ log[m].ctx = c)

\* the step in which unhandled is called for a context marked handled = true
\* changes nothing of the page or the browser
UnhandledSkips ==
  (/\ Len(log') > Len(log)
   /\ log'[Len(log) + 1].e = "unhandled"
   /\ log'[Len(log) + 1].handled = "true")
  => /\ Len(log') = Len(log) + 1
     /\ running' = running /\ current' = current /\ len' = len /\ conf' = conf
     /\ href' = href /\ entries' = entries /\ hidx' = hidx /\ ctxs' = ctxs

\* what the record shows of such a context
HandledReturns ==
  \A n \in Pos : \A c \in 1..Len(ctxs) : ExhaustedHandled(n, c) =>
    /\ \E a \in 1..(n - 1) : log[a].e = "assign" /\ log[a].ctx = c /\ log[a].handled = "true"
    /\ Hrefs(c) = {}
    /\ (ShowPending(n, c) /\ n + 2 <= Len(log)) =>
         IF "push" \in log[ShowOf(c)].flags
         THEN /\ log[n + 1].e = "pushState" /\ log[n + 1].ctx = c
              /\ log[n + 1].len = log[n].len + 1
              /\ log[n + 2].e = "shown" /\ log[n + 2].ctx = c
              /\ log[n + 2].handled = "true"
         ELSE log[n + 1].e = "shown" /\ log[n + 1].ctx = c /\ log[n + 1].handled = "true"

\* C12: when an enter handler has set ctx.handled = true and the enter list
\* is exhausted, the unhandled fallback does nothing: it neither stops the
\* page nor asks for a full page load, then or later.  The show that is
\* dispatching the context returns next, with handled still true, after
\* pushing its history entry (unless it was told not to push).
C12_HandledSkips == []HandledReturns /\ [][UnhandledSkips]_vars

\* a show, with the browser at another address, whose handler set handled =
\* true and continued: the list was exhausted and the show pushed and
\* returned
C12_Witness ==
  \E n \in Pos : \E c \in 1..Len(ctxs) :
    /\ ExhaustedHandled(n, c) /\ ShowPending(n, c)
    /\ log[n].at # ctxs[c].canonicalPath
    /\ n + 2 <= Len(log)
    /\ log[n + 1].e = "pushState" /\ log[n + 2].e = "shown"
    /\ log[n + 2].handled = "true"
    /\ running

\* the enter middleware k is a handler registered for '*' (or for no pattern)
Wild(k) ==
  callbacks[k].fn = "user" /\ callbacks[k].route = Route(<<"*">>, callbacks[k].route.strict)

\* no enter route at the positions from..(k - 1) matches context c
NoneMatches(from, k, c) == \A i \in from..(k - 1) : ~RouteMatches(callbacks, i, c)

\* event m: the last thing show or replace does for context c before it
\* calls dispatch
DispatchStart(m, c) ==
  /\ log[m].ctx = c
  /\ \/ log[m].e = "show" /\ "dispatch" \in log[m].flags
     \/ /\ log[m].e = "replaceState" /\ m > 1
        /\ log[m - 1].e = "replace" /\ "dispatch" \in log[m - 1].flags

\* the wildcard handler k was invoked in dispatch d and has not called its
\* continuation
Withheld(k, d) ==
  /\ \E n \in Pos : Invoked(n, "enter", k, d)
  /\ \A b \in Pos : ~Continued(b, "enter", k, d)

\* C13 as claimed, for the paths that Route.match can decode: once the turn
\* is over, a wildcard handler has been invoked in every dispatch in which
\* the exit phase was passed and every matching enter middleware before it
\* was invoked and called its continuation; and no full page load is asked
\* for a context whose wildcard handler withheld its continuation.
C13_Original ==
  \A d \in 1..Len(disp) : \A k \in 1..Len(callbacks) :
    (/\ Wild(k) /\ stack = << >>
     /\ ~Undecodable(disp[d].ctx)
     /\ disp[d].prev # 0 => ~Undecodable(disp[d].prev)
     /\ disp[d].prev # 0 =>
          \A j \in 1..Len(exits) :
            RouteMatches(exits, j, disp[d].prev) => RanThrough(Len(log) + 1, "exit", j, d)
     /\ \A j \in 1..(k - 1) :
          RouteMatches(callbacks, j, disp[d].ctx) => RanThrough(Len(log) + 1, "enter", j, d))
    => /\ \E n \in Pos : Invoked(n, "enter", k, d)
       /\ Withheld(k, d) => Hrefs(disp[d].ctx) = {}

\* C13: a wildcard handler is the next thing invoked when the enter phase
\* begins and no route before it matches, and when the last matching
\* middleware before it calls its continuation while current is still the
\* context's path; when current is another path by then, the guard ends the
\* dispatch instead, and when Route.match cannot decode the path it throws
\* and no handler is invoked.  No full page load is asked for a context whose
\* wildcard handler withheld its continuation.
C13_Wildcard ==
  \A k \in 1..Len(callbacks) : Wild(k) =>
    /\ \A m \in Pos : \A F \in (m + 1)..Len(log) :
         (/\ DispatchStart(m, log[m].ctx)
          /\ AfterExits(m, F, DispOf(log[m].ctx))
          /\ ExitsContinued(m, F)
          /\ NoneMatches(1, k, log[m].ctx))
         => IF log[F].e = "URIError" THEN Undecodable(log[F].ctx)
            ELSE Invoked(F, "enter", k, DispOf(log[m].ctx)) /\ log[F].ctx = log[m].ctx
    /\ \A b \in 1..(Len(log) - 1) : \A j \in 1..(k - 1) :
         (/\ Continued(b, "enter", j, log[b].d)
          /\ NoneMatches(j + 1, k, log[b].ctx))
         => IF log[b].cur # ctxs[log[b].ctx].path
            THEN /\ log[b + 1].e = "guard" /\ log[b + 1].ctx = log[b].ctx
                 /\ \A n \in Pos : ~Invoked(n, "enter", k, log[b].d)
            ELSE Invoked(b + 1, "enter", k, log[b].d) /\ log[b + 1].ctx = log[b].ctx
    /\ \A d \in 1..Len(disp) : Withheld(k, d) => Hrefs(disp[d].ctx) = {}

\* a wildcard handler registered after a route that does not match and one
\* that does was invoked for a path once the handler before it continued,
\* withheld its continuation, and the turn is over with no full page load
C13_Witness ==
  \E k \in 1..Len(callbacks) : \E d \in 1..Len(disp) : \E b \in Pos :
    /\ Wild(k) /\ k > 2 /\ Withheld(k, d) /\ stack = << >>
    /\ Continued(b, "enter", k - 1, d) /\ Invoked(b + 1, "enter", k, d)
    /\ ~RouteMatches(callbacks, 1, disp[d].ctx)
    /\ log[b].at # ctxs[disp[d].ctx].canonicalPath
    /\ href = << >>

\* the middleware list of a phase
ListOf(ph) == IF ph = "exit" THEN exits ELSE callbacks

\* the context a phase of dispatch d hands to its middleware
SubjectOf(ph, d) == IF ph = "exit" THEN disp[d].prev ELSE disp[d].ctx

\* no middleware of phase ph at the positions (k + 1)..(i - 1) matches
SkippedBetween(ph, k, i, d) ==
  \A j \in (k + 1)..(i - 1) : ~RouteMatches(ListOf(ph), j, SubjectOf(ph, d))

\* event n: dispatch d gets further: a middleware is invoked, the guard ends
\* it, or its enter list is exhausted
Progress(n, d) ==
  \/ log[n].e \in {"call", "guard"} /\ log[n].d = d
  \/ log[n].e = "unhandled" /\ log[n].ctx = disp[d].ctx

\* event n is where the chain of dispatch d resumes after the middleware k of
\* phase ph: at the first middleware after k that matches, of the same phase
\* or, the exit list exhausted, of the enter phase, or at the end of the chain
ResumesAfter(n, ph, k, d) ==
  \/ /\ log[n].e = "call" /\ log[n].d = d /\ log[n].ph = ph
     /\ log[n].idx > k /\ SkippedBetween(ph, k, log[n].idx, d)
  \/ /\ log[n].e = "call" /\ log[n].d = d /\ ph = "exit" /\ log[n].ph = "enter"
     /\ SkippedBetween("exit", k, Len(exits) + 1, d)
     /\ SkippedBetween("enter", 0, log[n].idx, d)
  \/ log[n].e = "guard" /\ log[n].d = d
  \/ log[n].e = "unhandled" /\ log[n].ctx = disp[d].ctx
  \/ log[n].e = "URIError" /\ Undecodable(log[n].ctx)

\* C14: in both phases, once a handler has been invoked, its dispatch gets no
\* further (no later middleware is invoked, the guard does not run, the list
\* is not exhausted) before that handler has called its continuation; and
\* when it calls it, at once or from a timer after show has returned, the
\* chain resumes right after that handler's position.
C14_ChainWaits ==
  /\ \A a \in Pos : \A n \in (a + 1)..Len(log) :
       (log[a].e = "call" /\ Progress(n, log[a].d))
         => \E b \in (a + 1)..(n - 1) : Continued(b, log[a].ph, log[a].idx, log[a].d)
  /\ \A b \in 1..(Len(log) - 1) :
       log[b].e = "next" => ResumesAfter(b + 1, log[b].ph, log[b].idx, log[b].d)

\* an enter handler set a timer and returned, the show returned, the timer
\* called the continuation and the handler at the next position was invoked
C14_Witness ==
  \E a \in Pos : \E s \in Pos : \E b \in Pos :
    /\ log[a].e = "defer" /\ log[a].ph = "enter"
    /\ a < s /\ log[s].e = "shown" /\ log[s].ctx = log[a].ctx
    /\ s < b /\ Continued(b, "enter", log[a].idx, log[a].d)
    /\ b < Len(log) /\ Invoked(b + 1, "enter", log[a].idx + 1, log[a].d)

\* C15 as claimed: when stop has returned, whatever the state it was called
\* in, current is the empty string, len is 0 and there is no previous
\* context (so that the next dispatch runs no exit phase).
C15_Original ==
  (log # << >> /\ log[Len(log)].e = "stop")
    => current = << >> /\ len = 0 /\ prevContext = 0

\* C16 as claimed: no call of show or replace, and no dispatch, ends in the
\* URIError of a path, query string or parameter that cannot be decoded.
C16_Original == \A n \in Pos : log[n].e # "URIError"

\* the step in which a handler throws
Raised ==
  /\ Len(log') > Len(log)
  /\ log'[Len(log) + 1].e = "raise"

\* the exception leaves every call of the turn and changes nothing
RaisePropagates ==
  Raised => /\ stack' = << >>
            /\ Len(log') = Len(log) + 2 /\ log'[Len(log) + 2].e = "throw"
            /\ current' = current /\ len' = len /\ entries' = entries /\ hidx' = hidx
            /\ timers' = timers /\ disp' = disp /\ ctxs' = ctxs

\* what the record shows after a handler has thrown: its dispatch gets no
\* further, and a show that had not returned by then never returns nor pushes
RaiseEnds ==
  \A r \in Pos : log[r].e = "raise" =>
    /\ \A n \in (r + 1)..Len(log) : ~Progress(n, log[r].d) /\ ~Continued(n, log[r].ph, log[r].idx, log[r].d)
    /\ Cardinality({d \in 1..Len(disp) : disp[d].ctx = disp[log[r].d].ctx}) = 1
    /\ \A c \in 1..Len(ctxs) : ShowPending(r, c) =>
         /\ Pushes(c) = {}
         /\ \A n \in Pos : ~(log[n].e = "shown" /\ log[n].ctx = c)

\* C17: when an enter or exit handler throws, the exception leaves every
\* call on the stack (the dispatch, the show or replace that made it, and
\* any call these are nested in) without changing anything; no later
\* middleware of that dispatch is ever invoked, the context is not
\* dispatched again, and a show that was left that way pushes no entry.
C17_ThrowPropagates == []RaiseEnds /\ [][RaisePropagates]_vars

\* an enter handler, running inside a show that was to push, has thrown
\* with a matching route still ahead of it, and the turn is over
C17_Witness ==
  \E r \in Pos : \E c \in 1..Len(ctxs) :
    /\ log[r].e = "raise" /\ log[r].ph = "enter" /\ log[r].ctx = c
    /\ ShowPending(r, c) /\ "push" \in log[ShowOf(c)].flags
    /\ stack = << >>
    /\ \E k \in (log[r].idx + 1)..Len(callbacks) : RouteMatches(callbacks, k, c)

\* the enter handler invoked at event n has returned for good without
\* calling its continuation: the turn is over and the record shows no call
\* of the continuation, no timer set for it and no exception
ReturnedForGood(n) ==
  /\ log[n].e = "call" /\ log[n].ph = "enter"
  /\ stack = << >>
  /\ \A k \in (n + 1)..Len(log) :
       ~(log[k].e \in {"next", "defer", "raise"} /\ log[k].ph = "enter"
         /\ log[k].idx = log[n].idx /\ log[k].d = log[n].d)

\* C18 as claimed: a context whose matching enter handler has run without
\* calling its continuation has handled = true, and one for which dispatch
\* reached the unhandled fallback or the path guard has handled = false.
C18_Original ==
  /\ \A n \in Pos : ReturnedForGood(n) => ctxs[log[n].ctx].handled = "true"
  /\ \A n \in Pos : (log[n].e \in {"unhandled", "guard"} /\ stack = << >>)
                       => ctxs[log[n].ctx].handled = "false"

\* the events that assign the handled flag of context c
Writes(c) == {n \in Pos : log[n].e \in {"assign", "guard", "href"} /\ log[n].ctx = c}
LastWrite(c) == CHOOSE n \in Writes(c) : \A k \in Writes(c) : k <= n

\* C18 (amended): handled is unset, true or false, and unset in a new
\* context.  The engine never makes it true: only a handler's own assignment
\* does, so a matching enter handler that returns without calling its
\* continuation leaves the flag as it found it.  The engine makes it false
\* in two places: the path guard, and the unhandled fallback when it asks
\* for a full page load; an unhandled fallback that finds the flag true or
\* the browser already at the context's address leaves it alone.
C18_HandledTriState ==
  /\ \A n \in Calls : log[n].handled = "unset"
  /\ \A n \in Pos : log[n].e \in {"guard", "href"} => log[n].handled = "false"
  /\ \A c \in 1..Len(ctxs) :
       /\ ctxs[c].handled \in {"unset", "true", "false"}
       /\ ctxs[c].handled = IF Writes(c) = {} THEN "unset" ELSE log[LastWrite(c)].handled
       /\ ctxs[c].handled = "true" => log[LastWrite(c)].e = "assign"

\* a show whose matching enter handler returned without calling its
\* continuation and without touching the flag: the show has returned and
\* pushed, and the flag is still unset
C18_Witness ==
  \E n \in Pos :
    /\ ReturnedForGood(n)
    /\ ctxs[log[n].ctx].handled = "unset"
    /\ \E m \in (n + 1)..Len(log) : log[m].e = "shown" /\ log[m].ctx = log[n].ctx
    /\ Pushes(log[n].ctx) # {}

(***************************************************************************)
(* The pattern compiler on its own.  A probe takes a pattern, an argument  *)
(* (a path, or the value of the parameter x) and the strict option, and    *)
(* applies the compiler's functions to them; the page stays as built.      *)
(***************************************************************************)

\* the characters encodeURIComponent leaves as they are
Unreserved == WordChars \cup {"-", ".", "!", "~", "*", "'", "(", ")"}

\* the escape of a character outside Unreserved
PercentOf(c) ==
  CASE c = " " -> <<"%", "2", "0">>
    [] c = "/" -> <<"%", "2", "F">>
    [] c = "%" -> <<"%", "2", "5">>

\* encodeURIComponent(v)
RECURSIVE encodeURIComponent(_)
encodeURIComponent(v) ==
  IF v = << >> THEN << >>
  ELSE (IF Head(v) \in Unreserved THEN <<Head(v)>> ELSE PercentOf(Head(v)))
       \o encodeURIComponent(Tail(v))

\* matches[i].test(segment): new RegExp('^' + token.pattern + '$')
SegmentMatches(pattern, segment) ==
  \E k \in 1..Len(PatternEnds(pattern, segment, 1)) :
    PatternEnds(pattern, segment, 1)[k] = Len(segment) + 1

\* a builder that leaves the prefix out
appendSegmentBare(path, tok, segment) == path \o segment

\* path += token.prefix + segment
appendSegment(path, tok, segment) == path \o tok.prefix \o segment

\* The object handed to the builder has at most the property x: data is
\* [has, list, items]: has = FALSE for {}, list = FALSE for {x: items[1]} with
\* a string, list = TRUE for {x: items} with an array of strings.
NoData == [has |-> FALSE, list |-> FALSE, items |-> << >>]
StringData(v) == [has |-> TRUE, list |-> FALSE, items |-> <<v>>]
ListData(vs) == [has |-> TRUE, list |-> TRUE, items |-> vs]

TypeError == [err |-> TRUE, val |-> << >>]

\* a builder that takes a list for any capture
RepeatAllowedAlways(tok) == TRUE

\* the test !token.repeat of the array branch
RepeatAllowed(tok) == tok.repeat

\* a builder that joins the items of a list with the prefix only
appendItemPrefixed(path, tok, j, segment) == path \o tok.prefix \o segment

\* path += (j === 0 ? token.prefix : token.delimiter) + segment
appendItem(path, tok, j, segment) ==
  path \o (IF j = 1 THEN tok.prefix ELSE tok.delimiter) \o segment

\* the loop over the items of an array value, from item j on: [err, val]
RECURSIVE buildItems(_, _, _, _)
buildItems(tok, items, j, path) ==
  IF j > Len(items) THEN [err |-> FALSE, val |-> path]
  ELSE IF ~SegmentMatches(tok.pattern, encodeURIComponent(items[j])) THEN TypeError
  ELSE buildItems(tok, items, j + 1,
                  appendItem(path, tok, j, encodeURIComponent(items[j])))

\* the function tokensToFunction returns, from token i on; err is a thrown
\* TypeError
RECURSIVE buildFrom(_, _, _, _)
RECURSIVE buildKey(_, _, _, _, _)
RECURSIVE buildList(_, _, _, _, _)
buildFrom(tokens, i, data, path) ==
  IF i > Len(tokens) THEN [err |-> FALSE, val |-> path]
  ELSE IF tokens[i].type = "lit"
  THEN buildFrom(tokens, i + 1, data, path \o tokens[i].str)
  ELSE IF ~(data.has /\ tokens[i].name = <<"x">>)
  THEN (IF tokens[i].optional THEN buildFrom(tokens, i + 1, data, path)
        ELSE TypeError)
  ELSE IF data.list
  THEN (IF ~RepeatAllowed(tokens[i]) THEN TypeError
        ELSE IF data.items = << >>
        THEN (IF tokens[i].optional THEN buildFrom(tokens, i + 1, data, path)
              ELSE TypeError)
        ELSE buildList(tokens, i, data, path,
                       buildItems(tokens[i], data.items, 1, path)))
  ELSE buildKey(tokens, i, data, path, encodeURIComponent(data.items[1]))

buildList(tokens, i, data, path, joined) ==
  IF joined.err THEN TypeError
  ELSE buildFrom(tokens, i + 1, data, joined.val)

buildKey(tokens, i, data, path, segment) ==
  IF ~SegmentMatches(tokens[i].pattern, segment) THEN TypeError
  ELSE buildFrom(tokens, i + 1, data, appendSegment(path, tokens[i], segment))

\* compile(str)(data)
tokensToFunction(tokens, data) == buildFrom(tokens, 1, data, << >>)

\* pathToRegexp(pattern, [], {strict}).test(path)
Test(pattern, path, strict) ==
  exec(parse(pattern), path, [strict |-> strict, sensitive |-> FALSE]).ok

\* patterns without a trailing slash, and paths without one
SlashPatterns ==
  { << >>, <<"/", "a">>, <<"/", "a", "/", "b">>, <<"/", ":", "x">>,
    <<"/", "a", "/", ":", "x">>, <<"/", ":", "x", "?">>, <<"/", ":", "x", "+">>,
    <<"*">>, <<"/", "a", "/", "*">>, <<"/", "a", "/", "(", ".", "*", ")">>,
    <<"/", "a", ".", ":", "x">>, <<"/", "a", "/", ":", "x", "*">>,
    <<"/", "a", "/", "/", ":", "x", "?">> }

PathStems ==
  { << >>, <<"/", "a">>, <<"/", "b">>, <<"/", "a", "/", "b">>,
    <<"/", "a", "/", "a">>, <<"/", "a", "/", "b", "/", "c">>,
    <<"/", "a", ".", "b">>, <<"/", "A">> }

\* patterns with a capture named x, and values for it
BuildPatterns ==
  { <<"/", ":", "x">>, <<"/", "a", "/", ":", "x">>, <<"/", ":", "x", "/", "b">>,
    <<"/", ":", "x", "/">>, <<"/", ":", "x", "?">>, <<"/", ":", "x", "+">>,
    <<"/", "a", ".", ":", "x">>, <<"/", ":", "x", "(", "\\", "d", "+", ")">>,
    <<"/", ":", "x", "/", ":", "y">>, <<"/", ":", "x", ".", ":", "y", "?">> }

Values ==
  { << >>, <<"a">>, <<"b">>, <<"a", "b">>, <<"a", " ", "b">>, <<"%">>,
    <<"a", ".", "b">>, <<"5">>, <<"a", "/", "b">> }

\* patterns with a capture x, and the objects handed to the builder
DataPatterns ==
  { <<"/", "a", "/", ":", "x", "+">>, <<"a", ":", "x", "+">>,
    <<"/", "a", "/", ":", "x", "*">>, <<"/", "a", "/", ":", "x">>,
    <<"/", "a", "/", ":", "x", "?">>, <<"/", "a", "/", ":", "x", "?", "/", "b">>,
    <<"/", ":", "x", "(", "\\", "d", "+", ")", "+">>,
    <<"/", ":", "y", "/", ":", "x", "+">> }

DataValues ==
  {NoData}
  \cup {StringData(v) : v \in {<< >>, <<"1">>, <<"a", " ", "b">>}}
  \cup {ListData(vs) : vs \in {<< >>, <<(<<"1">>)>>, <<(<<"1">>), (<<"2">>)>>,
                               <<(<<"a", " ", "b">>), (<<"2">>)>>,
                               <<(<< >>)>>, <<(<<"1">>), (<< >>)>>, <<(<<"a">>)>>}}

\* routes, paths and query strings for Route.match
MatchPatterns ==
  { <<"/", "a", "/", ":", "x", "?">>, <<"/", ":", "x">>, <<"/", "a">>, <<"*">>,
    <<"/", "a", "/", ":", "x">> }

MatchPaths ==
  { <<"/", "a">>, <<"/", "a", "/", "5">>, <<"/", "a", "/", "5", "/", "b">>,
    <<"/", "a", "/">>, <<"/", "a", "/", "5", "/">>, <<"/", "b">>,
    <<"/", "a", "%", "2", "0", "b">>, <<"/", "a", "+", "b">>,
    <<"/", "%", "2", "5", "2", "0">>, <<"/", "%", "2", "5">>,
    <<"/", "a", "%", "2", "F", "b">>, <<"/", "a", "/", "a", "%", "2", "0", "b">> }

Queries == { << >>, <<"x">>, <<"%">>, <<"a", "?", "b">> }

\* paths handed to the Context constructor
ContextPaths ==
  { <<"/", "a">>, <<"/", "a", "?", "x">>, <<"/", "a", "#", "b">>,
    <<"/", "a", "?", "x", "#", "b">>, <<"/", "a", "#", "b", "?", "x">>,
    <<"/", "a", "?", "x", "?", "y">>, <<"/", "a", "?">>, <<"/", "a", "#">>,
    <<"/", "a", "/", "b", "?", "x", "#", "b">>, <<"/">> }

\* an outer and an inner route of one chain, and the paths dispatched to them
ChainPatterns ==
  { <<"/", "a", "/", ":", "x", "?">>, <<"/", ":", "x">>, <<"*">>, <<"/", "b">>,
    <<"/", "a", "/", "(", "\\", "d", "+", ")", "?">>, <<"/", ":", "y", "/", ":", "x", "?">>,
    <<"/", "(", ".", "*", ")">> }

ChainPaths ==
  { <<"/", "a">>, <<"/", "a", "/", "5">>, <<"/", "b">>, <<"/", "a", "/", "x">> }

\* paths handed to show or replace, and the bases set with page.base()
PersistPaths ==
  { <<"/", "a">>, <<"/", "b", "/", "a">>, <<"/", "b">>, <<"a">>, <<"/">>, << >>,
    <<"/", "a", "#", "c">>, <<"/", "a", "?", "x">>, <<"/", "b", "#", "!", "/", "a">>,
    <<"#", "!", "/", "a">>, <<"#", "!">>, <<"/", "b", "a">>, <<"#", "c">>,
    <<"/", "b", "#", "c">>, <<"/", "#", "c">>, <<"/", "b", "#", "!">> }

Bases == { << >>, <<"/", "b">> }

\* patterns with unnamed captures, compiled alone and in arrays of two
KeyPatterns ==
  { <<"/", "(", ".", "*", ")">>, <<"/", "a", "/", "(", "\\", "d", "+", ")", "/", "(", ".", "*", ")">>,
    <<"/", ":", "x", "/", "(", ".", "*", ")">>, <<"/", ":", "0", "/", "(", ".", "*", ")">>,
    <<"/", ":", "x">>, <<"/", "(", ".", "*", ")", "/", ":", "y", "/", "(", ".", "*", ")">>,
    <<"/", "a">>, <<"/", ":", "x", "/", ":", "y">> }

KeyLists == {<<pt>> : pt \in KeyPatterns} \cup {<<pt, qt>> : pt, qt \in KeyPatterns}

Input(kind, pattern, arg, strict) ==
  [NoProbe EXCEPT !.kind = kind, !.stage = "input", !.pattern = pattern,
                  !.arg = arg, !.strict = strict]

NoRoutes == [callbacks |-> << >>, exits |-> << >>]

PureInit ==
  /\ PageInit(NoRoutes)
  /\ \/ \E pt \in SlashPatterns, s \in PathStems, st \in BOOLEAN :
          probe = Input("slash", pt, s, st)
     \/ \E pt \in BuildPatterns, v \in Values, st \in BOOLEAN :
          probe = Input("build", pt, v, st)
     \/ \E pt \in DataPatterns, data \in DataValues :
          probe = Input("data", pt, data, FALSE)
     \/ \E pt \in MatchPatterns, s \in MatchPaths, q \in Queries,
           st \in BOOLEAN, dc \in BOOLEAN :
          probe = [Input("match", pt, s, st) EXCEPT !.opt.decode = dc, !.opt.query = q]
     \/ \E s \in ContextPaths, hb \in BOOLEAN :
          probe = [Input("context", << >>, s, FALSE) EXCEPT !.opt.hashbang = hb]
     \/ \E s \in PersistPaths, b \in Bases, hb \in BOOLEAN :
          probe = [Input("persist", << >>, s, FALSE) EXCEPT !.opt.hashbang = hb,
                                                           !.opt.base = b]
     \/ \E pts \in KeyLists : probe = Input("keys", << >>, pts, FALSE)
     \/ \E pt \in ChainPatterns, in \in ChainPatterns, s \in ChainPaths, dc \in BOOLEAN :
          probe = [Input("chain", pt, s, FALSE) EXCEPT !.opt.decode = dc, !.inner = in]

\* the pattern, and the pattern with a slash added, each tested on the path
\* with no, one and two slashes added
TestSlashes ==
  /\ probe.kind = "slash" /\ probe.stage = "input"
  /\ probe' = [probe EXCEPT !.stage = "tested",
                 !.tests = [i \in 1..2 |-> [k \in 1..3 |->
                   Test(probe.pattern \o [n \in 1..(i - 1) |-> "/"],
                        probe.arg \o [n \in 1..(k - 1) |-> "/"],
                        probe.strict)]]]
  /\ UNCHANGED pageVars

\* the reverse builder is applied to {x: v}, or to the object given
Build ==
  /\ probe.kind \in {"build", "data"} /\ probe.stage = "input"
  /\ probe' = [probe EXCEPT !.stage = "built",
                 !.built = tokensToFunction(parse(probe.pattern),
                             IF probe.kind = "build" THEN StringData(probe.arg)
                             ELSE probe.arg)]
  /\ UNCHANGED pageVars

\* the path built is matched with the expression compiled from the pattern
Exec ==
  /\ probe.kind \in {"build", "data"} /\ probe.stage = "built" /\ ~probe.built.err
  /\ probe' = [probe EXCEPT !.stage = "matched",
                 !.m = exec(parse(probe.pattern), probe.built.val,
                            [strict |-> probe.strict, sensitive |-> FALSE])]
  /\ UNCHANGED pageVars

\* Route.match of the route for the pattern, on the path and on the path
\* followed by '?' and the query string, each with params = {}
MatchPath ==
  /\ probe.kind = "match" /\ probe.stage = "input"
  /\ probe' = [probe EXCEPT !.stage = "matched",
                 !.out = <<match(Route(probe.pattern, probe.strict), probe.arg,
                                 {}, probe.opt.decode),
                           match(Route(probe.pattern, probe.strict),
                                 probe.arg \o <<"?">> \o probe.opt.query,
                                 {}, probe.opt.decode)>>]
  /\ UNCHANGED pageVars

\* the chain's outer route is matched on the path with params = {}: out[1]
MatchOuter ==
  /\ probe.kind = "chain" /\ probe.stage = "input"
  /\ probe' = [probe EXCEPT !.stage = "outer",
                 !.out = <<match(Route(probe.pattern, probe.strict), probe.arg,
                                 {}, probe.opt.decode)>>]
  /\ UNCHANGED pageVars

\* then the inner route on the same path, with the params the outer left: out[2]
MatchInner ==
  /\ probe.kind = "chain" /\ probe.stage = "outer" /\ ~probe.out[1].err
  /\ probe' = [probe EXCEPT !.stage = "inner",
                 !.out = Append(@, match(Route(probe.inner, probe.strict), probe.arg,
                                         probe.out[1].params, probe.opt.decode))]
  /\ UNCHANGED pageVars

\* pathToRegexp(path, keys) for a string or an array of strings: the keys
Compile ==
  /\ probe.kind = "keys" /\ probe.stage = "input"
  /\ probe' = [probe EXCEPT !.stage = "compiled", !.out = pathToRegexpKeys(probe.arg)]
  /\ UNCHANGED pageVars

\* the page a probe's contexts are constructed for
ProbePage ==
  [base |-> probe.opt.base, hashbang |-> probe.opt.hashbang,
   decode |-> probe.opt.decode, protocolFile |-> FALSE, locPathname |-> <<"/">>]

\* new Context(path, undefined, page)
Construct ==
  /\ probe.kind \in {"context", "persist"} /\ probe.stage = "input"
  /\ probe' = [probe EXCEPT !.stage = "constructed",
                 !.out = <<NewContext(probe.arg, ProbePage)>>]
  /\ UNCHANGED pageVars

\* _onpopstate for the state the context persisted: the context that
\* replace(e.state.path, e.state) constructs
Reconstruct ==
  /\ probe.kind = "persist" /\ probe.stage = "constructed" /\ ~probe.out[1].err
  /\ probe' = [probe EXCEPT !.stage = "reconstructed",
                 !.out = Append(@, NewContext(probe.out[1].state.path, ProbePage))]
  /\ UNCHANGED pageVars

PureNext ==
  \/ TestSlashes \/ Build \/ Exec \/ MatchPath \/ Construct \/ Reconstruct
  \/ MatchOuter \/ MatchInner \/ Compile

PureSpec == PureInit /\ [][PureNext]_vars

\* what the claim says of one probe: t[i][k] is the test of the pattern
\* (i = 2: with a slash added) on the path with k - 1 slashes added
SlashRule(t, strict) ==
  IF strict
  THEN /\ ~t[1][2] /\ ~t[1][3] /\ ~t[2][1] /\ ~t[2][3]
       /\ t[2][2] = t[1][1]
  ELSE /\ t[1][2] = t[1][1] /\ t[2][1] = t[1][1] /\ t[2][2] = t[1][1]
       /\ ~t[1][3] /\ ~t[2][3]

SlashBound(tokens) ==
  \A i \in 1..Len(tokens) :
    tokens[i].type = "key" => tokens[i].pattern = DefaultPattern(<<"/">>)

\* no slash of the pattern follows another
SingleSlashes(pattern) ==
  \A k \in 1..(Len(pattern) - 1) : ~(pattern[k] = "/" /\ pattern[k + 1] = "/")

CaptureOf(keys, caps, name) ==
  caps[CHOOSE i \in 1..Len(keys) : keys[i].name = name]

\* the round trip of a probe has succeeded as far as it has got
RoundTrip ==
  /\ probe.stage = "built" => ~probe.built.err
  /\ probe.stage = "matched" =>
       /\ probe.m.ok
       /\ CaptureOf(KeysOf(parse(probe.pattern)), probe.m.caps, <<"x">>)
            = [def |-> TRUE, s |-> probe.arg]

\* the delimiter of the capture x of a pattern
DelimiterOfX(tokens) ==
  tokens[CHOOSE i \in 1..Len(tokens) : tokens[i].name = <<"x">>].delimiter

OnlyX(tokens) ==
  /\ Len(KeysOf(tokens)) = 1
  /\ KeysOf(tokens)[1].name = <<"x">>
  /\ KeysOf(tokens)[1].pattern = DefaultPattern(KeysOf(tokens)[1].prefix)

TokenX(tokens) == tokens[CHOOSE i \in 1..Len(tokens) : tokens[i].name = <<"x">>]

\* the items of a list from item j on, each encoded, the first after the
\* capture's prefix and the others after its delimiter
RECURSIVE Joined(_, _, _)
Joined(tok, items, j) ==
  IF j > Len(items) THEN << >>
  ELSE (IF j = 1 THEN tok.prefix ELSE tok.delimiter)
       \o encodeURIComponent(items[j]) \o Joined(tok, items, j + 1)

\* the path of the tokens from i on, with seg in the place of the capture x
\* and nothing in the place of any other capture
RECURSIVE Filled(_, _, _)
Filled(tokens, i, seg) ==
  IF i > Len(tokens) THEN << >>
  ELSE (IF tokens[i].type = "lit" THEN tokens[i].str
        ELSE IF tokens[i].name = <<"x">> THEN seg ELSE << >>)
       \o Filled(tokens, i + 1, seg)

\* every item of the list, once encoded, passes the capture's own pattern
ItemsPass(tok, items) ==
  \A j \in 1..Len(items) : SegmentMatches(tok.pattern, encodeURIComponent(items[j]))

\* a probe of the builder on a pattern whose only capture is :x+, with a list
RepeatProbe ==
  /\ probe.kind = "data" /\ probe.stage = "built" /\ probe.arg.list
  /\ Len(KeysOf(parse(probe.pattern))) = 1
  /\ TokenX(parse(probe.pattern)).repeat /\ ~TokenX(parse(probe.pattern)).optional

\* the path the claim expects of the probe
RepeatPath ==
  Filled(parse(probe.pattern), 1, Joined(TokenX(parse(probe.pattern)), probe.arg.items, 1))

\* C21 as claimed: for :x+ every non-empty list is built into the path of
\* its encoded items in order, and the empty list throws.
C21_Original ==
  RepeatProbe =>
    IF probe.arg.items = << >> THEN probe.built.err
    ELSE probe.built = [err |-> FALSE, val |-> RepeatPath]

\* C21 (amended): for a pattern whose only capture is :x+, a non-empty
\* list whose items, once encoded, each pass the capture's own pattern (the
\* default pattern lets every item pass but the empty string) is built into
\* the literal text with, in place of the capture, the prefix and the first
\* encoded item, then the delimiter and each following item, in list order;
\* the empty list, and a list with an item that does not pass, throw.
C21_RepeatBuild ==
  RepeatProbe =>
    IF probe.arg.items # << >> /\ ItemsPass(TokenX(parse(probe.pattern)), probe.arg.items)
    THEN probe.built = [err |-> FALSE, val |-> RepeatPath]
    ELSE probe.built.err

\* '/a/:x+' with x = ['1', '2'] has been built into '/a/1/2'
C21_Witness ==
  /\ RepeatProbe
  /\ probe.pattern = <<"/", "a", "/", ":", "x", "+">>
  /\ probe.arg.items = <<(<<"1">>), (<<"2">>)>>
  /\ probe.built = [err |-> FALSE, val |-> <<"/", "a", "/", "1", "/", "2">>]

\* the builder has to throw for the tokens and the object: some capture that
\* is not optional has no value, or x is a list and its capture does not
\* repeat, or x is the empty list and its capture repeats but is not
\* optional, or a value of x, encoded, does not pass the capture's pattern
MustThrow(tokens, data) ==
  \E i \in 1..Len(tokens) :
    /\ tokens[i].type = "key"
    /\ IF ~(data.has /\ tokens[i].name = <<"x">>) THEN ~tokens[i].optional
       ELSE \/ data.list /\ ~tokens[i].repeat
            \/ data.list /\ data.items = << >> /\ ~tokens[i].optional
            \/ ~ItemsPass(tokens[i], data.items)

\* what takes the place of the capture x in the path built
SegmentFor(tok, data) ==
  IF ~data.has \/ data.items = << >> THEN << >>
  ELSE IF data.list THEN Joined(tok, data.items, 1)
  ELSE tok.prefix \o encodeURIComponent(data.items[1])

\* C22: the builder throws, and returns nothing, exactly when a capture that
\* is not optional has no value, a list is given for a capture that does
\* not repeat, the empty list is given for a repeating capture that is not
\* optional, or an encoded value does not pass the capture's own pattern;
\* otherwise it returns the path, in which an optional capture without a
\* value (or, if it repeats, with the empty list) leaves nothing, not even
\* its prefix.
C22_BuildValidates ==
  (probe.kind = "data" /\ probe.stage = "built") =>
    IF MustThrow(parse(probe.pattern), probe.arg) THEN probe.built = TypeError
    ELSE probe.built =
           [err |-> FALSE,
            val |-> Filled(parse(probe.pattern), 1,
                           SegmentFor(TokenX(parse(probe.pattern)), probe.arg))]

\* a list given for the capture of '/a/:x', which does not repeat: thrown
C22_Witness ==
  /\ probe.kind = "data" /\ probe.stage = "built"
  /\ probe.pattern = <<"/", "a", "/", ":", "x">>
  /\ probe.arg = ListData(<<(<<"1">>)>>)
  /\ probe.built = TypeError

\* a probe of Route.match that has been carried out
MatchProbed == probe.kind = "match" /\ probe.stage = "matched"

\* path is pre followed by a segment: not empty and without a slash
SegmentAfter(pre, path) ==
  /\ Len(path) > Len(pre) /\ SubSeq(path, 1, Len(pre)) = pre
  /\ \A k \in (Len(pre) + 1)..Len(path) : path[k] # "/"

Rest(pre, path) == SubSeq(path, Len(pre) + 1, Len(path))

\* params holds x and nothing else, with the value v
OnlyParam(params, v) == params = {[name |-> <<"x">>, def |-> TRUE, s |-> v]}

\* the literal text in front of the last capture of the patterns '...:x' and
\* '.../:x?'
BeforeOptional(pattern) == SubSeq(pattern, 1, Len(pattern) - 4)
BeforeCapture(pattern) == SubSeq(pattern, 1, Len(pattern) - 2)

\* C23: the route of a pattern that ends in the optional capture '/:x?'
\* after literal text, such as '/a/:x?', matches the literal path ('/a')
\* and leaves x undefined in params; it matches the path with one more
\* segment ('/a/5') and stores that segment as x; it does not match the
\* path with two more segments ('/a/5/b').
C23_OptionalParam ==
  (/\ MatchProbed
   /\ Len(probe.pattern) > 4
   /\ SubSeq(probe.pattern, Len(probe.pattern) - 3, Len(probe.pattern)) = <<"/", ":", "x", "?">>)
    => /\ probe.arg = BeforeOptional(probe.pattern)
            => probe.out[1] = [err |-> FALSE, ok |-> TRUE,
                               params |-> {[name |-> <<"x">>, def |-> FALSE, s |-> << >>]}]
       /\ (/\ SegmentAfter(BeforeOptional(probe.pattern) \o <<"/">>, probe.arg)
           /\ "%" \notin {probe.arg[k] : k \in 1..Len(probe.arg)})
            => /\ probe.out[1].ok /\ ~probe.out[1].err
               /\ OnlyParam(probe.out[1].params,
                            Rest(BeforeOptional(probe.pattern) \o <<"/">>, probe.arg))
       /\ (\E k \in 1..(Len(probe.arg) - 1) :
             /\ SegmentAfter(BeforeOptional(probe.pattern) \o <<"/">>, SubSeq(probe.arg, 1, k - 1))
             /\ probe.arg[k] = "/")
            => ~probe.out[1].ok

\* '/a/:x?' has matched '/a/5' with x = '5'
C23_Witness ==
  /\ MatchProbed
  /\ probe.pattern = <<"/", "a", "/", ":", "x", "?">>
  /\ probe.arg = <<"/", "a", "/", "5">>
  /\ probe.out[1].ok /\ OnlyParam(probe.out[1].params, <<"5">>)

\* C24 as claimed: for both settings of decodeURLComponents, when the path
\* is the literal text of '...:x' followed by a validly encoded segment, the
\* route matches and params.x is decodeURIComponent of that segment.
C24_Original ==
  (/\ MatchProbed
   /\ probe.pattern \in {<<"/", ":", "x">>, <<"/", "a", "/", ":", "x">>}
   /\ SegmentAfter(BeforeCapture(probe.pattern), probe.arg)
   /\ ~decodeURIComponent(Rest(BeforeCapture(probe.pattern), probe.arg)).err)
    => /\ probe.out[1].ok /\ ~probe.out[1].err
       /\ OnlyParam(probe.out[1].params,
                    decodeURIComponent(Rest(BeforeCapture(probe.pattern), probe.arg)).val)

\* the parts of a path the claim describes: the text before the first '?'
\* or '#', the text after the first '?' up to the next '#', and the text
\* after the first '#'
UpTo(s, cs) == SubSeq(s, 1, RunEnd(s, 1, {s[k] : k \in 1..Len(s)} \ cs) - 1)

QueryPart(s) ==
  IF IndexOf(s, <<"?">>) = -1 THEN << >>
  ELSE UpTo(SliceFrom(s, IndexOf(s, <<"?">>) + 1), {"#"})

HashPart(s) ==
  IF IndexOf(s, <<"#">>) = -1 THEN << >> ELSE SliceFrom(s, IndexOf(s, <<"#">>) + 1)

\* C25 as claimed: the context's pathname is the path before the first '?'
\* (and, unless in hashbang mode, before the '#'), its querystring the part
\* after the first '?' up to the '#', its hash the part after the '#'.
C25_Original ==
  (probe.kind = "context" /\ probe.stage = "constructed" /\ ~probe.opt.hashbang)
    => /\ probe.out[1].pathname = UpTo(probe.arg, {"?", "#"})
       /\ probe.out[1].querystring = QueryPart(probe.arg)
       /\ probe.out[1].hash = HashPart(probe.arg)

\* C26: Route.match gives the same result (matched or not, URIError or not,
\* and the same params) for a path without '?' and for that path followed
\* by '?' and any query string.
C26_QueryIgnored == MatchProbed => probe.out[2] = probe.out[1]

\* '/a/:x' has matched '/a/5?x' as it matched '/a/5', with x = '5'
C26_Witness ==
  /\ MatchProbed
  /\ probe.pattern = <<"/", "a", "/", ":", "x">>
  /\ probe.arg = <<"/", "a", "/", "5">> /\ probe.opt.query = <<"x">>
  /\ probe.out[2].ok /\ OnlyParam(probe.out[2].params, <<"5">>)

\* event m: a handler of dispatch log[m].d calls show or replace for a
\* logical path other than that of the dispatch's context
NavigatedAway(m) ==
  /\ log[m].e \in {"show", "replace"} /\ log[m].d # 0
  /\ ctxs[log[m].ctx].path # ctxs[disp[log[m].d].ctx].path

\* C27 as claimed: once a handler of a dispatch, in the exit or the enter
\* phase, has called show or replace for another logical path, no
\* middleware of that dispatch is invoked any more.
C27_Original ==
  \A m \in Pos : NavigatedAway(m) =>
    \A k \in (m + 1)..Len(log) : ~(log[k].e = "call" /\ log[k].d = log[m].d)

\* event b: an enter handler of a dispatch calls, from a timer, the
\* continuation it kept, and a show or replace has begun since it returned
LateContinuation(b) ==
  /\ log[b].e = "next" /\ log[b].ph = "enter"
  /\ \E a \in 1..(b - 1) : \E m \in (a + 1)..(b - 1) :
       /\ log[a].e = "defer" /\ log[a].ph = "enter"
       /\ log[a].idx = log[b].idx /\ log[a].d = log[b].d
       /\ log[m].e \in {"show", "replace"}

\* after event b the chain of its dispatch goes no further
CutAfter(b) ==
  \A k \in (b + 1)..Len(log) :
    /\ ~(log[k].e = "call" /\ log[k].ph = "enter" /\ log[k].d = log[b].d)
    /\ ~(log[k].e = "unhandled" /\ log[k].ctx = log[b].ctx)

\* C28 as claimed: when a show or replace has begun while a dispatch was
\* suspended in an enter handler, whatever its target, the handler's later
\* call of its continuation invokes no further enter handler for the
\* earlier context and does not reach the unhandled fallback for it.
C28_Original == \A b \in Pos : LateContinuation(b) => CutAfter(b)

\* C28 (amended): the late continuation is cut (the guard marks the earlier
\* context handled = false, and no enter handler or unhandled fallback
\* follows for it) when the controller's current path differs from the
\* earlier context's path at the moment the continuation is called; when
\* they are equal, as after a second navigation to the same logical path,
\* the earlier chain goes on with its next matching handler or with the
\* unhandled fallback.
C28_StaleCut ==
  \A b \in Pos : LateContinuation(b) =>
    /\ (stack = << >> \/ Len(log) > b) => Len(log) > b
    /\ Len(log) > b =>
         IF log[b].cur # ctxs[log[b].ctx].path
         THEN /\ log[b + 1].e = "guard" /\ log[b + 1].d = log[b].d
              /\ log[b + 1].handled = "false"
              /\ CutAfter(b)
         ELSE /\ log[b + 1].e \in {"call", "unhandled"}
              /\ log[b + 1].ctx = log[b].ctx

\* the start-up dispatch was suspended in an enter handler, a show for
\* another path began and returned, and the continuation was then cut
C28_Witness ==
  \E b \in Pos :
    /\ LateContinuation(b) /\ Len(log) > b
    /\ log[b + 1].e = "guard"
    /\ \E m \in 1..(b - 1) : log[m].e = "show" /\ ctxs[log[m].ctx].path # ctxs[log[b].ctx].path

\* C29: whenever an enter handler is invoked, and whenever the unhandled
\* fallback is entered, current equals the logical path of the context;
\* whenever the continuation finds them different, it marks the context
\* handled = false, and neither an enter handler nor the unhandled fallback
\* follows for that dispatch.
C29_GuardedEnter ==
  \A n \in Pos :
    /\ ((log[n].e = "call" /\ log[n].ph = "enter") \/ log[n].e = "unhandled")
         => log[n].cur = ctxs[log[n].ctx].path
    /\ log[n].e = "guard"
         => /\ log[n].cur # ctxs[log[n].ctx].path
            /\ log[n].handled = "false"
            /\ \A k \in (n + 1)..Len(log) :
                 /\ ~(log[k].e = "call" /\ log[k].ph = "enter" /\ log[k].d = log[n].d)
                 /\ ~(log[k].e = "unhandled" /\ log[k].ctx = log[n].ctx)

\* an enter handler was invoked for a context, called show for another path
\* and then its continuation, which found current changed; a later handler
\* in the list matches the context and was not invoked
C29_Witness ==
  \E n \in Pos : \E a \in 1..(n - 1) :
    /\ log[n].e = "guard"
    /\ log[a].e = "call" /\ log[a].ph = "enter" /\ log[a].d = log[n].d
    /\ \E k \in (log[a].idx + 1)..Len(callbacks) : RouteMatches(callbacks, k, log[n].ctx)
    /\ stack = << >>

\* C30 as claimed: no full page load is requested for a context for which
\* an enter handler was invoked.
C30_Original ==
  \A h \in Pos : log[h].e = "href" =>
    \A k \in 1..(h - 1) :
      ~(log[k].e = "call" /\ log[k].ph = "enter" /\ log[k].ctx = log[h].ctx)

\* C30 (amended): a full page load is requested only from the unhandled
\* fallback, which is entered when the enter list is exhausted: every enter
\* handler that was invoked for the context has called its continuation
\* before.  A context one of whose enter handlers withheld its continuation
\* is never escalated.
C30_EscalatesExhausted ==
  \A h \in Pos : log[h].e = "href" =>
    /\ \E u \in 1..(h - 1) :
         /\ log[u].e = "unhandled" /\ log[u].ctx = log[h].ctx /\ u >= h - 2
         /\ log[u].handled # "true"
         /\ log[u].at # ctxs[log[h].ctx].canonicalPath
    /\ \A k \in 1..(h - 1) :
         (log[k].e = "call" /\ log[k].ph = "enter" /\ log[k].ctx = log[h].ctx)
           => \E b \in (k + 1)..(h - 1) : Continued(b, "enter", log[k].idx, log[k].d)

\* an enter handler matched the context and called its continuation; no
\* later route matched, and the full page load was requested
C30_Witness ==
  \E h \in Pos : \E k \in 1..(h - 1) :
    /\ log[h].e = "href"
    /\ log[k].e = "call" /\ log[k].ph = "enter" /\ log[k].ctx = log[h].ctx

\* event h: the unhandled fallback asks for the full page load of a context
\* that a show made and whose show has not returned yet
EscalatesInShow(h) ==
  /\ log[h].e = "href"
  /\ \E s \in 1..(h - 1) : log[s].e = "show" /\ log[s].ctx = log[h].ctx
  /\ \A k \in 1..(h - 1) : ~(log[k].e = "shown" /\ log[k].ctx = log[h].ctx)

\* event u: the unhandled fallback is entered for a context not marked
\* handled, of a show that has not returned, with the browser at the
\* context's canonical path
SettledInShow(u) ==
  /\ log[u].e = "unhandled" /\ log[u].handled # "true"
  /\ log[u].at = ctxs[log[u].ctx].canonicalPath
  /\ \E s \in 1..(u - 1) : log[s].e = "show" /\ log[s].ctx = log[u].ctx
  /\ \A k \in 1..(u - 1) : ~(log[k].e = "shown" /\ log[k].ctx = log[u].ctx)

\* C31 as claimed: when the unhandled fallback escalates during show, stop
\* has made current the empty string and len 0, the context is marked
\* handled = false, the full page load of its canonical path is requested
\* and show pushes no entry for it; when the browser is at the canonical
\* path already, nothing is stopped, marked or requested.
C31_Original ==
  /\ \A h \in Pos : EscalatesInShow(h) =>
       /\ h > 1 /\ log[h - 1].e = "stop"
       /\ log[h].cur = << >> /\ log[h].len = 0
       /\ log[h].handled = "false"
       /\ \E i \in 1..Len(href) : href[i] = ctxs[log[h].ctx].canonicalPath
       /\ \A k \in Pos : ~(log[k].e = "pushState" /\ log[k].ctx = log[h].ctx)
  /\ \A u \in Pos : SettledInShow(u) =>
       /\ log[u].handled = "unset"
       /\ \A k \in Pos : ~(log[k].e = "href" /\ log[k].ctx = log[u].ctx)
       /\ Len(log) > u => log[u + 1].e # "stop"

\* the exit handler invoked at event a has not called its continuation
ExitWithheld(a) ==
  /\ log[a].e = "call" /\ log[a].ph = "exit"
  /\ \A b \in Pos : ~Continued(b, "exit", log[a].idx, log[a].d)

\* dispatch d is about to take a step of one of its phases
Poised(d) ==
  \E f \in 1..Len(stack) : stack[f].k \in {"exit", "enter"} /\ stack[f].d = d

\* C32: as long as an exit handler that was invoked has not called its
\* continuation, its dispatch has halted there: no later exit middleware and
\* no enter middleware has been invoked for it, the path guard has not run,
\* the unhandled fallback has not been entered for its context, and the
\* dispatch is not about to take a step.
C32_ExitHalts ==
  \A a \in Pos : ExitWithheld(a) =>
    /\ \A n \in (a + 1)..Len(log) :
         /\ ~(log[n].e \in {"call", "guard"} /\ log[n].d = log[a].d)
         /\ ~(log[n].e = "unhandled" /\ log[n].ctx = disp[log[a].d].ctx)
    /\ ~Poised(log[a].d)

\* an exit handler returned without calling its continuation and without a
\* timer for it, the turn is over and nothing is pending; a later exit
\* route matches the previous context and an enter route matches the new one
C32_Witness ==
  \E a \in Pos :
    /\ ExitWithheld(a)
    /\ \A k \in Pos : ~(log[k].e = "defer" /\ log[k].ph = "exit" /\ log[k].d = log[a].d)
    /\ stack = << >> /\ timers = << >>
    /\ \E j \in (log[a].idx + 1)..Len(exits) : RouteMatches(exits, j, disp[log[a].d].prev)
    /\ \E i \in 1..Len(callbacks) : RouteMatches(callbacks, i, disp[log[a].d].ctx)

\* event k starts a turn: a timer, a popstate event or a call by the
\* application
TurnStart(k) ==
  \/ log[k].e \in {"timer", "popstate"}
  \/ log[k].e \in {"show", "replace", "back", "fallback", "redirect"} /\ log[k].d = 0
  \/ log[k].e = "stop" /\ (k = 1 \/ log[k - 1].e # "unhandled")

\* the call at event s, by the application and told to dispatch, has returned
\* and its turn is the last one; a handler of its dispatch called replace for
\* another path at event m, the last call of show or replace of the turn
RedirectedTurn(s, m) ==
  /\ log[s].e \in {"show", "replace"} /\ log[s].d = 0 /\ "dispatch" \in log[s].flags
  /\ s < m /\ log[m].e = "replace" /\ log[m].d # 0
  /\ disp[log[m].d].ctx = log[s].ctx
  /\ ctxs[log[m].ctx].path # ctxs[log[s].ctx].path
  /\ \A k \in (s + 1)..Len(log) :
       /\ ~TurnStart(k)
       /\ log[k].e \notin {"throw", "URIError"}
       /\ k > m => log[k].e \notin {"show", "replace"}
  /\ stack = << >>

\* context c has been pushed
Pushed(c) == \E k \in Pos : log[k].e = "pushState" /\ log[k].ctx = c

\* C33 as claimed: once a show or replace called by the application has
\* returned, a handler of its dispatch having called replace(C) for another
\* path, the browser's current entry is the one C wrote (C's state and URL),
\* and current is C's path unless stop has cleared it.
C33_Original ==
  \A s \in Pos : \A m \in Pos : RedirectedTurn(s, m) =>
    /\ entries[hidx].ctx = log[m].ctx
    /\ entries[hidx] = EntryOf(Cur, log[m].ctx)
    /\ current \in {ctxs[log[m].ctx].path, << >>}

\* C33 (amended): in that situation current is C's path unless stop has
\* cleared it, and C's entry is the browser's current one when the call was
\* a replace, or a show that does not push: one told not to, or one whose
\* context is marked handled = false when its dispatch returns (the handler
\* called its continuation after the replace, and the guard ran).  A show
\* that pushes adds its own context's entry on top of the one C wrote.
C33_RedirectPersists ==
  \A s \in Pos : \A m \in Pos : RedirectedTurn(s, m) =>
    /\ current \in {ctxs[log[m].ctx].path, << >>}
    /\ Pushed(log[s].ctx) <=>
         /\ log[s].e = "show" /\ "push" \in log[s].flags
         /\ ctxs[log[s].ctx].handled # "false"
    /\ IF Pushed(log[s].ctx)
       THEN /\ entries[hidx] = EntryOf(Cur, log[s].ctx)
            /\ hidx > 1 /\ entries[hidx - 1].ctx = log[m].ctx
       ELSE /\ entries[hidx].ctx = log[m].ctx
            /\ entries[hidx].state = ctxs[log[m].ctx].state.path

\* show(A) by the application: an enter handler called replace(C) and then
\* its continuation, the guard marked A, and show returned without pushing
C33_Witness ==
  \E s \in Pos : \E m \in Pos : \E g \in Pos :
    /\ RedirectedTurn(s, m)
    /\ log[s].e = "show" /\ "push" \in log[s].flags
    /\ g > m /\ log[g].e = "guard" /\ log[g].ctx = log[s].ctx
    /\ ~Pushed(log[s].ctx)
    /\ \E n \in Pos : log[n].e = "shown" /\ log[n].ctx = log[s].ctx

\* the two routes of a chain have been matched, neither throwing
ChainProbed == probe.kind = "chain" /\ probe.stage = "inner" /\ ~probe.out[2].err

\* the capture of the chain's inner route for the key name is defined
InnerDefines(name) ==
  \E e \in probe.out[2].params :
    /\ e.name = name /\ e.def
    /\ \E k \in 1..Len(KeysOf(parse(Route(probe.inner, FALSE).path))) :
         KeysOf(parse(Route(probe.inner, FALSE).path))[k].name = name

\* C34 as claimed: a Route.match that returns false leaves params as they
\* were; one that returns true leaves every key set by the earlier route,
\* named or positional, with its value unless its own capture for that key
\* is defined.
C34_Original ==
  ChainProbed =>
    IF ~probe.out[2].ok THEN probe.out[2].params = probe.out[1].params
    ELSE \A e \in probe.out[1].params :
           e \in probe.out[2].params \/ InnerDefines(e.name)

\* C35: the state.path of every context is its canonicalPath; and the
\* context constructed from a persisted state.path has the canonicalPath and
\* the logical path of the context that persisted it, with and without a
\* base, in hashbang mode and not.
C35_StateRoundTrip ==
  /\ (probe.kind = "persist" /\ probe.stage \in {"constructed", "reconstructed"})
       => \A k \in 1..Len(probe.out) :
            probe.out[k].state.path = probe.out[k].canonicalPath
  /\ (probe.kind = "persist" /\ probe.stage = "reconstructed")
       => /\ probe.out[2].canonicalPath = probe.out[1].canonicalPath
          /\ probe.out[2].path = probe.out[1].path
          /\ probe.out[2].state = probe.out[1].state

\* a path that the constructor put the base (and the hashbang marker) before
\* has been persisted and constructed again
C35_Witness ==
  /\ probe.kind = "persist" /\ probe.stage = "reconstructed"
  /\ probe.opt.base # << >> /\ probe.opt.hashbang
  /\ probe.out[1].canonicalPath # probe.arg
  /\ probe.out[2].path = <<"/", "a">>

\* the path with a leading base, the first hashbang marker (in hashbang
\* mode) and the fragment (otherwise) taken off
Stripped(path, pg) ==
  IF pg.hashbang
  THEN RemoveFirst(RemovePrefix(path, getBase(pg)), <<"#", "!">>)
  ELSE SplitFirst(RemovePrefix(path, getBase(pg)), "#")

\* C36 as claimed: the logical path of a context is never empty, and it is
\* '/' whenever the path without base, hashbang marker and fragment is empty.
C36_Original ==
  (probe.kind = "persist" /\ probe.stage = "constructed") =>
    /\ probe.out[1].path # << >>
    /\ Stripped(probe.out[1].canonicalPath, ProbePage) = << >>
         => probe.out[1].path = <<"/">>

\* the positions of the unnamed captures in a keys list, and how many of
\* them come before position i
Unnamed(keys) == {i \in 1..Len(keys) : keys[i].positional}
UnnamedBefore(keys, i) == Cardinality({j \in Unnamed(keys) : j < i})

\* C37 as claimed: in the keys list of one compile call, for a string and
\* for an array of strings, the unnamed captures are named 0, 1, 2, ... from
\* left to right, and no two keys have the same params key.
C37_Original ==
  (probe.kind = "keys" /\ probe.stage = "compiled") =>
    /\ \A i \in Unnamed(probe.out) :
         probe.out[i].name = NumStr(UnnamedBefore(probe.out, i))
    /\ \A i, j \in 1..Len(probe.out) :
         i # j => probe.out[i].name # probe.out[j].name

\* the last event at which stop reset the page (0: it never did)
Resets == {n \in Pos : log[n].e = "stop" /\ log[n].ph # "idle"}
LastReset == IF Resets = {} THEN 0 ELSE CHOOSE r \in Resets : \A q \in Resets : q <= r

\* len before event n
LenAt(n) == IF n = 1 THEN 0 ELSE log[n - 1].len

\* C38: len is never negative, and it is the number of entries pushed since
\* stop last reset the page, less the number of calls of back since then
\* that went to history.back().  len changes only where show pushes (by one,
\* for a show told to push), where back goes to history.back() (by one) and
\* where stop resets it: the steps of a show told not to push, of replace
\* and of the popstate listener leave it as it is.
C38_LenCounts ==
  /\ len >= 0
  /\ len = Cardinality({k \in Pos : k > LastReset /\ log[k].e = "pushState"})
           - Cardinality({k \in Pos : k > LastReset /\ log[k].e = "back"})
  /\ log # << >> => len = log[Len(log)].len
  /\ \A n \in Pos :
       /\ log[n].e = "pushState"
            => /\ log[n].len = LenAt(n) + 1
               /\ \E s \in 1..(n - 1) : /\ log[s].e = "show" /\ log[s].ctx = log[n].ctx
                                        /\ "push" \in log[s].flags
       /\ log[n].e = "back" => log[n].len = LenAt(n) - 1
       /\ log[n].e \notin {"pushState", "back", "stop"} => log[n].len = LenAt(n)
       /\ (log[n].e = "stop" /\ log[n].ph = "idle") => log[n].len = LenAt(n)

\* a show pushed an entry, back went to history.back(), and the popstate
\* listener called replace for the entry's state: len is 0 again
C38_Witness ==
  \E p \in Pos : \E b \in Pos : \E r \in Pos :
    /\ log[p].e = "pushState" /\ p < b /\ log[b].e = "back" /\ b < r
    /\ log[r - 1].e = "popstate" /\ log[r].e \in {"replace", "show"}
    /\ len = 0 /\ stack = << >>

\* C39 as claimed: whenever the reverse builder succeeds, the path it
\* produced is matched by the expression compiled from the same tokens, for
\* repeat captures with and without a prefix character too.
C39_Original ==
  (probe.kind \in {"build", "data"} /\ probe.stage = "matched") => probe.m.ok

\* event n: a show told to dispatch and to push returns while the chain of
\* its dispatch is suspended: the handler invoked last has not called its
\* continuation
SuspendedReturn(n) ==
  /\ log[n].e = "shown"
  /\ \E s \in 1..(n - 1) : /\ log[s].e = "show" /\ log[s].ctx = log[n].ctx
                           /\ {"dispatch", "push"} \subseteq log[s].flags
  /\ \E a \in 1..(n - 1) :
       /\ log[a].e = "call" /\ log[a].d = DispOf(log[n].ctx)
       /\ \A b \in (a + 1)..(n - 1) :
            ~(log[b].e \in {"call", "next"} /\ log[b].d = log[a].d)

\* event g, after n: the guard or the unhandled fallback gets to the context
\* of the show that returned at n
LateVerdict(n, g) ==
  g > n /\ log[g].e \in {"guard", "unhandled", "href"} /\ log[g].ctx = log[n].ctx

====
